---- MODULE Spec2Model ----
(***************************************************************************)
(* PI planning dashboard: the goal validator (SMART scoring of the goals   *)
(* found in a document text) and the epic generator (one Epic per goal,    *)
(* five template Features per Epic, team assignment, effort rollups).      *)
(*                                                                         *)
(* Texts are strings; a character is a string of length 1.  Python floats  *)
(* are modelled as IEEE-754 binary64 values, see the section Float.        *)
(***************************************************************************)
EXTENDS Integers, Sequences, FiniteSets, TLC

(***************************************************************************)
(* Float.  Every float of the program is a sum of the literals 0.1, 0.2,   *)
(* 0.3, 0.4, 0.7, or such a sum times 20, of magnitude below 128: a        *)
(* multiple of 2^-56.  A float is its sign and its magnitude in units of   *)
(* 2^-56, the magnitude as three limbs of 21 bits (TLC integers have 32    *)
(* bits): h * 2^42 + m * 2^21 + l.  Every operation computes the exact     *)
(* result and rounds it to 53 significant bits, ties to even.              *)
(***************************************************************************)
Limb == 2 ^ 21

\* number of bits of the natural number n
RECURSIVE BitLen(_)
BitLen(n) == IF n = 0 THEN 0 ELSE 1 + BitLen(n \div 2)

\* carries propagated upwards; the top limb is not bounded
Carry(h, m, l) ==
    LET m1 == m + (l \div Limb)
    IN  [h |-> h + (m1 \div Limb), m |-> m1 % Limb, l |-> l % Limb]

MagLess(a, b) ==
    \/ a.h < b.h
    \/ a.h = b.h /\ a.m < b.m
    \/ a.h = b.h /\ a.m = b.m /\ a.l < b.l

\* a - b for b <= a
MagSub(a, b) ==
    LET bl == IF a.l < b.l THEN 1 ELSE 0
        l  == a.l + bl * Limb - b.l
        bm == IF a.m - bl < b.m THEN 1 ELSE 0
        m  == a.m - bl + bm * Limb - b.m
    IN  [h |-> a.h - bm - b.h, m |-> m, l |-> l]

\* round the exact magnitude a (plus a fraction of a unit that is zero iff
\* sticky = 0, and below half a unit) to a multiple of unit, ties to even
RoundTo(a, sticky, unit) ==
    LET r    == a.l % unit
        half == unit \div 2
        odd  == (a.l \div unit) % 2 = 1
        up   == IF unit = 1 THEN FALSE
                ELSE \/ r > half
                     \/ r = half /\ sticky # 0
                     \/ r = half /\ sticky = 0 /\ odd
    IN  IF up THEN Carry(a.h, a.m, a.l - r + unit)
              ELSE [h |-> a.h, m |-> a.m, l |-> a.l - r]

\* round to 53 significant bits: the top limb keeps 11 bits
RoundMag(a, sticky) ==
    RoundTo(a, sticky, 2 ^ (IF BitLen(a.h) > 11 THEN BitLen(a.h) - 11 ELSE 0))

\* the float of a sign and a magnitude; zero is kept positive
MkFloat(neg, mag) ==
    [neg |-> neg /\ ~(mag.h = 0 /\ mag.m = 0 /\ mag.l = 0),
     h |-> mag.h, m |-> mag.m, l |-> mag.l]

\* the float nearest to the decimal literal num/den (0 < den, num/den < 128),
\* as Python reads a literal such as 0.1 = FloatLit(1, 10)
FloatLit(num, den) ==
    LET hN == num * 16384
        h  == hN \div den
        r1 == hN % den
        m  == (r1 * Limb) \div den
        r2 == (r1 * Limb) % den
        l  == (r2 * Limb) \div den
        r3 == (r2 * Limb) % den
        q  == [h |-> h, m |-> m, l |-> l]
        \* the literals of the program have at most 53 bits before the
        \* remainder: the remainder alone decides the rounding
        q1 == IF 2 * r3 > den \/ (2 * r3 = den /\ l % 2 = 1)
              THEN Carry(h, m, l + 1) ELSE q
    IN  MkFloat(FALSE, IF BitLen(h) > 11 THEN RoundMag(q, r3) ELSE q1)

FZero == FloatLit(0, 1)
FOne == FloatLit(1, 1)

\* a + b
FAdd(a, b) ==
    MkFloat(IF a.neg # b.neg /\ MagLess(a, b) THEN b.neg ELSE a.neg,
            RoundMag(IF a.neg = b.neg THEN Carry(a.h + b.h, a.m + b.m, a.l + b.l)
                     ELSE IF MagLess(a, b) THEN MagSub(b, a)
                     ELSE MagSub(a, b), 0))

FNeg(a) == MkFloat(~a.neg, a)

\* a * n for a small natural number n
FMulInt(a, n) == MkFloat(a.neg, RoundMag(Carry(a.h * n, a.m * n, a.l * n), 0))

\* a < b
FLess(a, b) ==
    IF a.neg /\ ~b.neg THEN TRUE
    ELSE IF ~a.neg /\ b.neg THEN FALSE
    ELSE IF a.neg THEN MagLess(b, a) ELSE MagLess(a, b)

\* Python's min(a, b) and max(a, b): the first argument unless the second is
\* strictly smaller (larger)
FMin(a, b) == IF FLess(b, a) THEN b ELSE a
FMax(a, b) == IF FLess(a, b) THEN b ELSE a

\* int(a): truncation towards zero
FInt(a) == IF a.neg THEN 0 - (a.h \div 16384) ELSE a.h \div 16384

(***************************************************************************)
(* Text.  str.lower, str.strip, str.split, the character classes of re.    *)
(***************************************************************************)
UpperCase == "ABCDEFGHIJKLMNOPQRSTUVWXYZ"
LowerCase == "abcdefghijklmnopqrstuvwxyz"
Digits == "0123456789"

CharAt(s, i) == SubSeq(s, i, i)
CharsOf(s) == {CharAt(s, i) : i \in 1..Len(s)}

ToLower == [c \in CharsOf(UpperCase) |->
              CharAt(LowerCase, CHOOSE i \in 1..26 : CharAt(UpperCase, i) = c)]

\* A TLA+ string holds ASCII characters only.  Of the other characters the
\* texts may hold U+0130 (capital I with dot above), written "^" here, and
\* U+0307 (combining dot above), written "~"; "^" and "~" themselves do not
\* occur in the texts.
DottedI == "^"

\* the lower case of one character as re.IGNORECASE compares it: one
\* character always, "i" for U+0130
LowerChar(c) ==
    IF c \in DOMAIN ToLower THEN ToLower[c] ELSE IF c = DottedI THEN "i" ELSE c

\* the concatenation of the strings seq[lo], ..., seq[hi]
RECURSIVE ConcatRange(_, _, _)
ConcatRange(seq, lo, hi) ==
    IF lo > hi THEN ""
    ELSE IF lo = hi THEN seq[lo]
    ELSE LET mid == (lo + hi) \div 2
         IN  ConcatRange(seq, lo, mid) \o ConcatRange(seq, mid + 1, hi)

Concat(seq) == ConcatRange(seq, 1, Len(seq))

\* the text as re.IGNORECASE compares it, of the same length
fold(s) == Concat([i \in 1..Len(s) |-> LowerChar(CharAt(s, i))])

\* str.lower(): the lower case of U+0130 is "i" followed by U+0307
lower(s) ==
    Concat([i \in 1..Len(s) |-> IF CharAt(s, i) = DottedI THEN "i~"
                                ELSE LowerChar(CharAt(s, i))])

\* the classes \s, \d, \w and [^\n] of re
SpaceChars == {" ", "\n", "\t", "\r"}
DigitChars == CharsOf(Digits)
WordChars ==
    CharsOf(UpperCase) \cup CharsOf(LowerCase) \cup CharsOf(Digits) \cup {"_", DottedI}
IsSpace(c) == c \in SpaceChars
InClass(kind, c) ==
    CASE kind = "space" -> IsSpace(c)
      [] kind = "digit" -> c \in DigitChars
      [] kind = "word"  -> c \in WordChars
      [] kind = "notnl" -> c # "\n"

\* str.strip(): leading and trailing whitespace removed
strip(s) ==
    LET keep == {i \in 1..Len(s) : ~IsSpace(CharAt(s, i))}
    IN  IF keep = {} THEN ""
        ELSE SubSeq(s, CHOOSE i \in keep : \A j \in keep : i <= j,
                       CHOOSE i \in keep : \A j \in keep : j <= i)

\* len(s.split()): the number of maximal runs of non-whitespace
WordCount(s) ==
    Cardinality({i \in 1..Len(s) :
        /\ ~IsSpace(CharAt(s, i))
        /\ (i = 1 \/ IsSpace(CharAt(s, i - 1)))})

\* word in text
Contains(text, word) ==
    \E i \in 1..(Len(text) - Len(word) + 1) : SubSeq(text, i, i + Len(word) - 1) = word

(***************************************************************************)
(* Regular expressions.  A pattern is a sequence of atoms; an atom is a    *)
(* literal string or a character class with the bounds of its quantifier   *)
(* (hi = -1: unbounded).  MatchEnds is the set of positions at which a     *)
(* match that starts at position p can end, over all the ways the          *)
(* quantifiers can share the text: what backtracking explores.  Position   *)
(* p is before character p; Len(text) + 1 is the end of the text.          *)
(***************************************************************************)
Lit(s) == [kind |-> "lit", s |-> s, lo |-> 1, hi |-> 1]
Opt(s) == [kind |-> "lit", s |-> s, lo |-> 0, hi |-> 1]
Cls(kind, lo, hi) == [kind |-> kind, s |-> "", lo |-> lo, hi |-> hi]

\* the length of the longest run of characters of the class at p
RECURSIVE RunLen(_, _, _)
RunLen(text, p, kind) ==
    IF p <= Len(text) /\ InClass(kind, CharAt(text, p))
    THEN 1 + RunLen(text, p + 1, kind) ELSE 0

AtomEnds(text, p, a) ==
    IF a.kind = "lit"
    THEN (IF a.lo = 0 THEN {p} ELSE {})
         \cup (IF /\ p + Len(a.s) - 1 <= Len(text)
                  /\ SubSeq(text, p, p + Len(a.s) - 1) = a.s
               THEN {p + Len(a.s)} ELSE {})
    ELSE LET r == RunLen(text, p, a.kind)
             n == IF a.hi >= 0 /\ a.hi < r THEN a.hi ELSE r
         IN  {p + k : k \in a.lo..n}

RECURSIVE EndsFrom(_, _, _, _)
EndsFrom(text, ps, pat, k) ==
    IF ps = {} \/ k > Len(pat) THEN ps
    ELSE EndsFrom(text, UNION {AtomEnds(text, p, pat[k]) : p \in ps}, pat, k + 1)

MatchEnds(text, p, pat) == EndsFrom(text, {p}, pat, 1)

\* the flag re.IGNORECASE: the text and the literals of the pattern are
\* compared in lower case
FoldPattern(pat) ==
    [k \in 1..Len(pat) |-> [pat[k] EXCEPT !.s = fold(pat[k].s)]]

\* re.search(alts, text) is not None, alts the alternatives of the pattern
re_search(alts, text, ignorecase) ==
    LET t == IF ignorecase THEN fold(text) ELSE text
    IN  \E a \in 1..Len(alts) :
          LET pat == IF ignorecase THEN FoldPattern(alts[a]) ELSE alts[a]
          IN  \E p \in 1..(Len(t) + 1) : MatchEnds(t, p, pat) # {}

Max(S) == CHOOSE x \in S : \A y \in S : y <= x
Min(S) == CHOOSE x \in S : \A y \in S : x <= y

(***************************************************************************)
(* State.  The two agents and what their last calls took and returned.     *)
(***************************************************************************)
VARIABLES
    smart_criteria,     \* GoalValidatorAgent.smart_criteria
    team_categories,    \* EpicGeneratorAgent.team_categories, in declaration order
    effort_guidelines,  \* EpicGeneratorAgent.effort_guidelines
    now,                \* the clock read by datetime.now()
    called,             \* the last call: the method and its argument
    returned,           \* what the last call returned
    earlier,            \* an earlier call of validate_goals and what it returned
    session_state,      \* st.session_state: workflow_status, session_stats,
                        \* processed_goals and generated_epics
    finished            \* the page handler that ran last, and how it ended

vars == <<smart_criteria, team_categories, effort_guidelines, now, called, returned, earlier,
          session_state, finished>>

None == [none |-> TRUE]

(***************************************************************************)
(* GoalValidatorAgent._extract_goals                                       *)
(***************************************************************************)
\* the markers of goal_patterns, in order; each pattern is the marker, then
\* .*? up to the next marker of the same pattern or $
goal_patterns == <<
    <<Lit("GOAL"), Cls("space", 1, -1), Cls("digit", 1, -1), Lit(":")>>,
    <<Lit("OBJECTIVE"), Cls("space", 1, -1), Cls("digit", 1, -1), Lit(":")>>,
    <<Lit("Goal:")>>,
    <<Lit("Objective:")>> >>

\* $ without re.MULTILINE: the end of the text, or before a final newline
AtDollar(text, p) ==
    \/ p = Len(text) + 1
    \/ p = Len(text) /\ CharAt(text, p) = "\n"

\* re.findall(pattern, text, re.DOTALL | re.IGNORECASE) from position p on.
\* starts: the positions where the marker matches; stops: those where the
\* lookahead (?=marker|$) holds.  A match begins at the first start from p
\* on, the marker is matched greedily, and .*? ends at the first stop.
RECURSIVE FindAllFrom(_, _, _, _, _, _)
FindAllFrom(text, t, marker, starts, stops, p) ==
    LET from == {q \in starts : q >= p}
    IN  IF from = {} THEN <<>>
        ELSE LET b == Min(from)
                 m == Max(MatchEnds(t, b, marker))
                 e == Min({q \in stops : q >= m})
             IN  <<SubSeq(text, b, e - 1)>>
                 \o FindAllFrom(text, t, marker, starts, stops, e)

\* t is the text in lower case, m the marker in lower case (re.IGNORECASE)
findall(marker, text) ==
    LET t      == fold(text)
        m      == FoldPattern(marker)
        starts == {q \in 1..Len(t) : MatchEnds(t, q, m) # {}}
        stops  == starts \cup {q \in Len(t)..(Len(t) + 1) : q >= 1 /\ AtDollar(t, q)}
    IN  FindAllFrom(text, t, m, starts, stops, 1)

\* the separators of re.split(r'\n\s*\n|\d+\.\s+', text)
split_patterns == <<
    <<Lit("\n"), Cls("space", 0, -1), Lit("\n")>>,
    <<Cls("digit", 1, -1), Lit("."), Cls("space", 1, -1)>> >>

\* the end of the separator that starts at p, 0 if none does: the first
\* alternative that matches, its quantifiers greedy
SeparatorEnd(text, p) ==
    LET e1 == MatchEnds(text, p, split_patterns[1])
        e2 == MatchEnds(text, p, split_patterns[2])
    IN  IF e1 # {} THEN Max(e1) ELSE IF e2 # {} THEN Max(e2) ELSE 0

\* re.split: the pieces between the separators, from position p on; seps
\* are the positions where a separator can start
RECURSIVE SplitFrom(_, _, _)
SplitFrom(text, seps, p) ==
    LET from == {q \in seps : q >= p}
    IN  IF from = {} THEN <<SubSeq(text, p, Len(text))>>
        ELSE LET b == Min(from)
                 e == SeparatorEnd(text, b)
             IN  <<SubSeq(text, p, b - 1)>> \o SplitFrom(text, seps, e)

split(text) == SplitFrom(text, {q \in 1..Len(text) : SeparatorEnd(text, q) # 0}, 1)

\* re.sub(r'\s+', ' ', s): every maximal run of whitespace becomes one space
collapse_whitespace(s) ==
    Concat([i \in 1..Len(s) |->
              IF ~IsSpace(CharAt(s, i)) THEN CharAt(s, i)
              ELSE IF i > 1 /\ IsSpace(CharAt(s, i - 1)) THEN "" ELSE " "])

MapStrip(seq) == [i \in 1..Len(seq) |-> strip(seq[i])]

RECURSIVE FlattenFrom(_, _)
FlattenFrom(seqs, k) ==
    IF k > Len(seqs) THEN <<>> ELSE seqs[k] \o FlattenFrom(seqs, k + 1)

\* goals.extend(...) for every pattern, in the order of goal_patterns
structured_goals(text) ==
    FlattenFrom([k \in 1..Len(goal_patterns) |->
                    MapStrip(findall(goal_patterns[k], text))], 1)

MinFragmentLength == 50
MinGoalLength == 20
MaxGoals == 10

LongEnough(g) == Len(g) > MinGoalLength

\* [g.strip() for g in potential_goals if len(g.strip()) > 50]
fallback_goals(text) ==
    MapStrip(SelectSeq(split(text), LAMBDA g : Len(strip(g)) > MinFragmentLength))

Prefix(seq, n) == SubSeq(seq, 1, IF Len(seq) < n THEN Len(seq) ELSE n)

\* candidates_of, but the fragments also stand in when every goal found is
\* too short to be kept
candidates_of_when_short(found, text) ==
    IF \A i \in 1..Len(found) : Len(collapse_whitespace(strip(found[i]))) <= MinGoalLength
    THEN fallback_goals(text) ELSE found

\* if not goals: the fragments of the text stand in for the goals found
candidates_of(found, text) == IF found = <<>> THEN fallback_goals(text) ELSE found

\* re.sub(r'\s+', ' ', goal.strip()) for every candidate
MapClean(cands) == [i \in 1..Len(cands) |-> collapse_whitespace(strip(cands[i]))]

\* every candidate after the cleaning, before the filter on the length
cleaned_candidates(text) == MapClean(candidates_of(structured_goals(text), text))

\* _extract_goals without the limit of MaxGoals
_extract_goals_uncapped(text) == SelectSeq(cleaned_candidates(text), LongEnough)

_extract_goals(text) ==
    Prefix(SelectSeq(cleaned_candidates(text), LongEnough), MaxGoals)

(***************************************************************************)
(* GoalValidatorAgent.__init__: the SMART criteria.  A regular expression  *)
(* is kept as its source text; Compile gives its alternatives.             *)
(***************************************************************************)
SmartCriteria == [
    specific |-> [
        description |-> "Goal is clear and well-defined",
        keywords |-> <<"implement", "develop", "create", "build", "establish", "achieve">>,
        anti_keywords |-> <<"improve", "enhance", "better", "optimize", "increase">>],
    measurable |-> [
        description |-> "Goal has quantifiable success criteria",
        keywords |-> <<"%", "percent", "number", "count", "metric", "kpi", "score", "rating">>,
        patterns |-> <<"\\d+%", "\\d+\\.\\d+", "\\$\\d+",
                       "\\d+\\s*(seconds?|minutes?|hours?|days?|weeks?)">>],
    achievable |-> [
        description |-> "Goal is realistic and attainable",
        keywords |-> <<"realistic", "feasible", "attainable", "possible">>,
        warning_keywords |-> <<"revolutionary", "groundbreaking", "100%", "perfect", "eliminate all">>],
    relevant |-> [
        description |-> "Goal aligns with business objectives",
        keywords |-> <<"business value", "revenue", "customer", "user", "efficiency", "cost">>,
        contexts |-> <<"business", "customer", "user experience", "performance", "security">>],
    time_bound |-> [
        description |-> "Goal has clear timeline and deadlines",
        keywords |-> <<"by", "within", "deadline", "timeline", "end of", "complete by">>,
        patterns |-> <<"by\\s+\\w+\\s+\\d{4}", "within\\s+\\d+\\s+\\w+", "end\\s+of\\s+\\w+">>]]

Duration(unit) == <<Cls("digit", 1, -1), Cls("space", 0, -1), Lit(unit), Opt("s")>>

Compile(src) ==
    CASE src = "\\d+%" -> << <<Cls("digit", 1, -1), Lit("%")>> >>
      [] src = "\\d+\\.\\d+" -> << <<Cls("digit", 1, -1), Lit("."), Cls("digit", 1, -1)>> >>
      [] src = "\\$\\d+" -> << <<Lit("$"), Cls("digit", 1, -1)>> >>
      [] src = "\\d+\\s*(seconds?|minutes?|hours?|days?|weeks?)" ->
            <<Duration("second"), Duration("minute"), Duration("hour"),
              Duration("day"), Duration("week")>>
      [] src = "by\\s+\\w+\\s+\\d{4}" ->
            << <<Lit("by"), Cls("space", 1, -1), Cls("word", 1, -1),
                 Cls("space", 1, -1), Cls("digit", 4, 4)>> >>
      [] src = "within\\s+\\d+\\s+\\w+" ->
            << <<Lit("within"), Cls("space", 1, -1), Cls("digit", 1, -1),
                 Cls("space", 1, -1), Cls("word", 1, -1)>> >>
      [] src = "end\\s+of\\s+\\w+" ->
            << <<Lit("end"), Cls("space", 1, -1), Lit("of"),
                 Cls("space", 1, -1), Cls("word", 1, -1)>> >>

(***************************************************************************)
(* The five checks.  score += d for every word of the list that occurs in  *)
(* the text, in the order of the list; score -= d is score += -d.          *)
(***************************************************************************)
F01 == FloatLit(1, 10)
F02 == FloatLit(2, 10)
F03 == FloatLit(3, 10)
F04 == FloatLit(4, 10)
F07 == FloatLit(7, 10)

\* if condition: score += d
AddIf(condition, score, d) == IF condition THEN FAdd(score, d) ELSE score

RECURSIVE AddPerWord(_, _, _, _, _)
AddPerWord(score, words, k, text_lower, d) ==
    IF k > Len(words) THEN score
    ELSE AddPerWord(AddIf(Contains(text_lower, words[k]), score, d),
                    words, k + 1, text_lower, d)

RECURSIVE AddPerPattern(_, _, _, _, _, _)
AddPerPattern(score, patterns, k, text, d, ignorecase) ==
    IF k > Len(patterns) THEN score
    ELSE AddPerPattern(AddIf(re_search(Compile(patterns[k]), text, ignorecase), score, d),
                       patterns, k + 1, text, d, ignorecase)

Clamp(score) == FMin(FOne, FMax(FZero, score))

WordBonusLength == 20

_check_specific(goal_text) ==
    LET text_lower == lower(goal_text)
        s1 == AddPerWord(FZero, smart_criteria.specific.keywords, 1, text_lower, F02)
        s2 == AddPerWord(s1, smart_criteria.specific.anti_keywords, 1, text_lower, FNeg(F01))
        s3 == AddIf(WordCount(goal_text) > WordBonusLength, s2, F02)
    IN  Clamp(s3)

_check_measurable(goal_text) ==
    LET text_lower == lower(goal_text)
        s1 == AddPerWord(FZero, smart_criteria.measurable.keywords, 1, text_lower, F02)
        s2 == AddPerPattern(s1, smart_criteria.measurable.patterns, 1, goal_text, F03, FALSE)
        s3 == AddIf(Contains(text_lower, "success criteria") \/ Contains(text_lower, "metrics"),
                    s2, F03)
    IN  Clamp(s3)

_check_achievable(goal_text) ==
    LET text_lower == lower(goal_text)
        s1 == AddPerWord(F07, smart_criteria.achievable.warning_keywords, 1, text_lower, FNeg(F02))
        s2 == AddPerWord(s1, smart_criteria.achievable.keywords, 1, text_lower, F01)
    IN  Clamp(s2)

_check_relevant(goal_text) ==
    LET text_lower == lower(goal_text)
        s1 == AddPerWord(FZero, smart_criteria.relevant.keywords, 1, text_lower, F02)
        s2 == AddIf(Contains(text_lower, "business value") \/ Contains(text_lower, "impact"),
                    s1, F03)
        s3 == AddPerWord(s2, smart_criteria.relevant.contexts, 1, text_lower, F01)
    IN  Clamp(s3)

\* _check_time_bound, but the words of the list are not looked for
_check_time_bound_patterns_only(goal_text) ==
    LET text_lower == lower(goal_text)
        s2 == AddPerPattern(FZero, smart_criteria.time_bound.patterns, 1, goal_text, F04, TRUE)
        s3 == AddIf(Contains(text_lower, "pi") \/ Contains(text_lower, "program increment"),
                    s2, F03)
    IN  Clamp(s3)

_check_time_bound(goal_text) ==
    LET text_lower == lower(goal_text)
        s1 == AddPerWord(FZero, smart_criteria.time_bound.keywords, 1, text_lower, F02)
        s2 == AddPerPattern(s1, smart_criteria.time_bound.patterns, 1, goal_text, F04, TRUE)
        s3 == AddIf(Contains(text_lower, "pi") \/ Contains(text_lower, "program increment"),
                    s2, F03)
    IN  Clamp(s3)

(***************************************************************************)
(* GoalValidatorAgent._analyze_single_goal                                 *)
(***************************************************************************)
\* str(n) for a natural number n
RECURSIVE str(_)
str(n) == IF n < 10 THEN CharAt(Digits, n + 1)
          ELSE str(n \div 10) \o CharAt(Digits, (n % 10) + 1)

\* the markers the title pattern (?:GOAL\s+\d+:|Goal:)?\s*([^\n]+) may skip
title_markers == <<
    <<Lit("GOAL"), Cls("space", 1, -1), Cls("digit", 1, -1), Lit(":")>>,
    <<Lit("Goal:")>> >>

\* the markers as re.IGNORECASE compares them
folded_title_markers == <<FoldPattern(title_markers[1]), FoldPattern(title_markers[2])>>

\* where group 1 begins when the pattern is tried at position p with the
\* optional marker ending at g (g = p: no marker): \s* takes the longest
\* run of whitespace that leaves a character other than a newline; 0 if none
CaptureStart(t, g) ==
    LET r == RunLen(t, g, "space")
        S == {q \in g..(g + r) : q <= Len(t) /\ CharAt(t, q) # "\n"}
    IN  IF S = {} THEN 0 ELSE Max(S)

\* the end a greedy match takes first, if the pattern matches at all
Greedy(ends) == IF ends = {} THEN <<>> ELSE <<Max(ends)>>

\* the ends of the optional group at p, in the order the matcher tries them
GroupEnds(t, p) ==
    Greedy(MatchEnds(t, p, folded_title_markers[1]))
    \o Greedy(MatchEnds(t, p, folded_title_markers[2])) \o <<p>>

\* where group 1 begins for the first of the ends gs[k], ... of the optional
\* group that lets the rest of the pattern match, 0 if none does
RECURSIVE CaptureFrom(_, _, _)
CaptureFrom(t, gs, k) ==
    IF k > Len(gs) THEN 0
    ELSE IF CaptureStart(t, gs[k]) # 0 THEN CaptureStart(t, gs[k])
    ELSE CaptureFrom(t, gs, k + 1)

\* where group 1 begins for the match found at p, 0 if there is no match at p
MatchAt(t, p) == CaptureFrom(t, GroupEnds(t, p), 1)

\* where group 1 begins for the first match from p on, 0 if there is none
RECURSIVE FirstMatch(_, _)
FirstMatch(t, p) ==
    IF p > Len(t) THEN 0
    ELSE IF MatchAt(t, p) # 0 THEN MatchAt(t, p)
    ELSE FirstMatch(t, p + 1)

\* the match whose group 1 begins at b, as <<text of the group>>: [^\n]+
\* goes up to the end of the line; <<>> for b = 0, no match
GroupOne(text, b) ==
    IF b = 0 THEN <<>>
    ELSE <<SubSeq(text, b, Min({q \in b..(Len(text) + 1) :
                                  q = Len(text) + 1 \/ CharAt(text, q) = "\n"}) - 1)>>

\* re.search(r'(?:GOAL\s+\d+:|Goal:)?\s*([^\n]+)', text, re.IGNORECASE):
\* group(1) of the first match, as <<text of the group>>, or <<>> for None
title_match(text) == GroupOne(text, FirstMatch(fold(text), 1))

SpecificThreshold == F04
PassThreshold == F03

Dimensions == <<"specific", "measurable", "achievable", "relevant", "time_bound">>

\* the issue and the recommendation appended when a dimension fails
IssueOf == [
    specific   |-> "Goal lacks specificity - too vague or general",
    measurable |-> "Goal lacks measurable success criteria",
    achievable |-> "Goal may be unrealistic or overly ambitious",
    relevant   |-> "Goal lacks clear business relevance or value",
    time_bound |-> "Goal lacks clear timeline or deadline"]

RecommendationOf == [
    specific   |-> "Be more specific about what exactly will be accomplished",
    measurable |-> "Add specific metrics, numbers, or quantifiable outcomes",
    achievable |-> "Ensure the goal is realistic given available resources and time",
    relevant   |-> "Clearly state the business value and impact",
    time_bound |-> "Add specific deadlines and milestones"]

\* the raw score of each dimension
dimension_scores(goal_text) == [
    specific   |-> _check_specific(goal_text),
    measurable |-> _check_measurable(goal_text),
    achievable |-> _check_achievable(goal_text),
    relevant   |-> _check_relevant(goal_text),
    time_bound |-> _check_time_bound(goal_text)]

\* smart_assessement[dim] = score > threshold
assess(scores) == [
    specific   |-> FLess(SpecificThreshold, scores.specific),
    measurable |-> FLess(PassThreshold, scores.measurable),
    achievable |-> FLess(PassThreshold, scores.achievable),
    relevant   |-> FLess(PassThreshold, scores.relevant),
    time_bound |-> FLess(PassThreshold, scores.time_bound)]

\* the local smart_score after the five smart_score += score * 20
smart_score_sum(scores) ==
    FAdd(FAdd(FAdd(FAdd(FAdd(FZero,
        FMulInt(scores.specific, 20)),
        FMulInt(scores.measurable, 20)),
        FMulInt(scores.achievable, 20)),
        FMulInt(scores.relevant, 20)),
        FMulInt(scores.time_bound, 20))

\* Appended, but the entries are put in front of the list
RECURSIVE Appended_reversed(_, _, _)
Appended_reversed(smart_assessment, texts, k) ==
    IF k > Len(Dimensions) THEN <<>>
    ELSE Appended_reversed(smart_assessment, texts, k + 1)
         \o (IF smart_assessment[Dimensions[k]] THEN <<>> ELSE <<texts[Dimensions[k]]>>)

\* the entries appended for the failing dimensions, in the order of the checks
RECURSIVE Appended(_, _, _)
Appended(smart_assessment, texts, k) ==
    IF k > Len(Dimensions) THEN <<>>
    ELSE (IF smart_assessment[Dimensions[k]] THEN <<>> ELSE <<texts[Dimensions[k]]>>)
         \o Appended(smart_assessment, texts, k + 1)

SuccessCriteriaTemplate ==
    "\n\nSuccess Criteria:\n"
    \o "- Define specific, quantifiable metrics\n"
    \o "- Establish baseline and target values\n"
    \o "- Identify key stakeholders and beneficiaries\n"
    \o "- Set clear acceptance criteria\n"
    \o "- Define timeline with key milestones"

\* " ".join(parts)
RECURSIVE join(_, _)
join(parts, k) ==
    IF k > Len(parts) THEN ""
    ELSE IF k = Len(parts) THEN parts[k]
    ELSE parts[k] \o " " \o join(parts, k + 1)

\* title_match.group(1).strip() if title_match else default
stripped_group(m, default) == IF m # <<>> THEN strip(m[1]) ELSE default

\* improved_parts, with a clause for a goal that is not achievable
improved_parts_achievable(core_objective, smart_assessment) ==
    <<IF ~smart_assessment.specific
      THEN "Implement and deliver " \o lower(core_objective)
      ELSE core_objective>>
    \o (IF ~smart_assessment.measurable
        THEN <<"with measurable success criteria including specific KPIs and performance targets">>
        ELSE <<>>)
    \o (IF ~smart_assessment.achievable THEN <<"within a realistic scope">> ELSE <<>>)
    \o (IF ~smart_assessment.relevant
        THEN <<"to deliver clear business value and improve operational efficiency">>
        ELSE <<>>)
    \o (IF ~smart_assessment.time_bound
        THEN <<"by the end of the current Program Increment (PI)">>
        ELSE <<>>)

\* the parts of the improved goal, core_objective the stripped title or
\* "Achieve objective"
improved_parts(core_objective, smart_assessment) ==
    <<IF ~smart_assessment.specific
      THEN "Implement and deliver " \o lower(core_objective)
      ELSE core_objective>>
    \o (IF ~smart_assessment.measurable
        THEN <<"with measurable success criteria including specific KPIs and performance targets">>
        ELSE <<>>)
    \o (IF ~smart_assessment.relevant
        THEN <<"to deliver clear business value and improve operational efficiency">>
        ELSE <<>>)
    \o (IF ~smart_assessment.time_bound
        THEN <<"by the end of the current Program Increment (PI)">>
        ELSE <<>>)

_generate_improved_goal(original_goal, smart_assessment, issues) ==
    join(improved_parts(stripped_group(title_match(original_goal), "Achieve objective"),
                        smart_assessment), 1)
    \o SuccessCriteriaTemplate

\* the analysis of a goal given its title and the raw scores of the checks
analysis_of(goal_text, title, scores) ==
    [title |-> title,
     original_text |-> goal_text,
     improved_version |->
         _generate_improved_goal(goal_text, assess(scores), Appended(assess(scores), IssueOf, 1)),
     smart_assessment |-> assess(scores),
     smart_score |-> FInt(smart_score_sum(scores)),
     issues |-> Appended(assess(scores), IssueOf, 1),
     recommendations |-> Appended(assess(scores), RecommendationOf, 1)]

_analyze_single_goal(goal_text, goal_number) ==
    analysis_of(goal_text,
                stripped_group(title_match(goal_text), "Goal " \o str(goal_number)),
                dimension_scores(goal_text))

(***************************************************************************)
(* GoalValidatorAgent: the overall assessment                              *)
(***************************************************************************)
Excellent == 90
Good == 75
Fair == 60
Poor == 40

\* _determine_quality_level with a label of its own for the score 0
_determine_quality_level_sentinel(smart_score) ==
    IF smart_score >= Excellent THEN "Excellent"
    ELSE IF smart_score >= Good THEN "Good"
    ELSE IF smart_score >= Fair THEN "Fair"
    ELSE IF smart_score >= Poor THEN "Poor"
    ELSE IF smart_score > 0 THEN "Very Poor"
    ELSE "No Goals Found"

_determine_quality_level(smart_score) ==
    IF smart_score >= Excellent THEN "Excellent"
    ELSE IF smart_score >= Good THEN "Good"
    ELSE IF smart_score >= Fair THEN "Fair"
    ELSE IF smart_score >= Poor THEN "Poor"
    ELSE "Very Poor"

\* issue.split(' - ')[0] if ' - ' in issue else issue
issue_type(issue) ==
    LET at == {i \in 1..(Len(issue) - 2) : SubSeq(issue, i, i + 2) = " - "}
    IN  IF at = {} THEN issue ELSE SubSeq(issue, 1, Min(at) - 1)

\* issue_counts.get(key, 0) over the issues of all the goals
issue_count(validated_goals, key) ==
    Cardinality({<<g, i>> \in (1..Len(validated_goals)) \X (1..Len(Dimensions)) :
        /\ i <= Len(validated_goals[g].issues)
        /\ issue_type(validated_goals[g].issues[i]) = key})

\* count > len(validated_goals) * 0.5
Common(validated_goals, key) ==
    2 * issue_count(validated_goals, key) > Len(validated_goals)

GeneralRecommendations == <<
    "Consider breaking down large goals into smaller, manageable objectives",
    "Ensure goals align with overall PI objectives and business strategy",
    "Review and validate goals with key stakeholders",
    "Establish regular check-ins and progress reviews">>

MaxRecommendations == 6

_generate_overall_recommendations(validated_goals) ==
    Prefix(
        (IF Common(validated_goals, "Goal lacks specificity")
         THEN <<"Focus on making goals more specific and actionable">> ELSE <<>>)
        \o (IF Common(validated_goals, "Goal lacks measurable success criteria")
            THEN <<"Add quantifiable metrics and KPIs to all goals">> ELSE <<>>)
        \o (IF Common(validated_goals, "Goal lacks clear timeline")
            THEN <<"Establish clear deadlines and milestones for all goals">> ELSE <<>>)
        \o (IF Common(validated_goals, "Goal lacks clear business relevance")
            THEN <<"Clearly articulate business value and impact for each goal">> ELSE <<>>)
        \o GeneralRecommendations,
        MaxRecommendations)

\* SumScores, but total_smart_score starts from the aggregate score of the
\* report returned before
RECURSIVE SumScores_carrying(_, _)
SumScores_carrying(validated_goals, k) ==
    IF k > Len(validated_goals)
    THEN (IF returned # None /\ "smart_score" \in DOMAIN returned THEN returned.smart_score ELSE 0)
    ELSE validated_goals[k].smart_score + SumScores_carrying(validated_goals, k + 1)

RECURSIVE SumScores(_, _)
SumScores(validated_goals, k) ==
    IF k > Len(validated_goals) THEN 0
    ELSE validated_goals[k].smart_score + SumScores(validated_goals, k + 1)

\* datetime.isoformat(): the time as text
isoformat(t) == "T" \o str(t)

\* AnalyzeFrom, but the analysis of the second goal is lost
RECURSIVE AnalyzeFrom_skipping(_, _)
AnalyzeFrom_skipping(gs, k) ==
    IF k > Len(gs) THEN <<>>
    ELSE (IF k = 2 THEN <<>> ELSE <<_analyze_single_goal(gs[k], k)>>)
         \o AnalyzeFrom_skipping(gs, k + 1)

\* validated_goals.append(self._analyze_single_goal(goal_text, i + 1)), from
\* the k-th goal on
RECURSIVE AnalyzeFrom(_, _)
AnalyzeFrom(gs, k) ==
    IF k > Len(gs) THEN <<>>
    ELSE <<_analyze_single_goal(gs[k], k)>> \o AnalyzeFrom(gs, k + 1)

\* overall_smart_score, but the average is rounded up
overall_smart_score_ceiling(goals, validated_goals) ==
    IF goals # <<>>
    THEN (SumScores(validated_goals, 1) + Len(goals) - 1) \div Len(goals) ELSE 0

\* int(total_smart_score / len(goals)) if goals else 0: both are natural
\* numbers
overall_smart_score(goals, validated_goals) ==
    IF goals # <<>> THEN SumScores(validated_goals, 1) \div Len(goals) ELSE 0

\* the report made of the goals and their analyses at time t
report_of(text, goals, validated_goals, t) ==
    [original_text |-> text,
     goals_count |-> Len(goals),
     goals |-> validated_goals,
     smart_score |-> overall_smart_score(goals, validated_goals),
     quality_level |-> _determine_quality_level(overall_smart_score(goals, validated_goals)),
     recommendations |-> _generate_overall_recommendations(validated_goals),
     processed_at |-> isoformat(t)]

\* the report of the goals extracted from the text
analyzed(text, goals, t) == report_of(text, goals, AnalyzeFrom(goals, 1), t)

\* what validate_goals returns for text_content at time t
validation_report(text, t) == analyzed(text, _extract_goals(text), t)

(***************************************************************************)
(* EpicGeneratorAgent.__init__                                             *)
(***************************************************************************)
TeamCategories == <<
    [team |-> "Frontend", keywords |-> <<"UI", "UX", "React", "Angular", "Vue", "mobile", "web", "interface">>],
    [team |-> "Backend",  keywords |-> <<"API", "service", "database", "server", "microservice", "integration">>],
    [team |-> "DevOps",   keywords |-> <<"deployment", "infrastructure", "CI/CD", "monitoring", "security">>],
    [team |-> "QA",       keywords |-> <<"testing", "quality", "automation", "validation", "verification">>],
    [team |-> "Data",     keywords |-> <<"analytics", "reporting", "data", "metrics", "dashboard">>],
    [team |-> "Security", keywords |-> <<"security", "authentication", "authorization", "compliance">>] >>

EffortGuidelines == [
    XS  |-> [points |-> 1,  description |-> "Simple configuration or minor UI change"],
    S   |-> [points |-> 2,  description |-> "Small feature or bug fix"],
    M   |-> [points |-> 3,  description |-> "Medium complexity feature"],
    L   |-> [points |-> 5,  description |-> "Large feature requiring multiple components"],
    XL  |-> [points |-> 8,  description |-> "Complex feature with significant integration"],
    XXL |-> [points |-> 13, description |-> "Epic-level work requiring breakdown"]]

(***************************************************************************)
(* EpicGeneratorAgent: one Epic per goal                                   *)
(***************************************************************************)
\* dict.get(key, default)
Get(d, key, default) == IF key \in DOMAIN d THEN d[key] ELSE default

\* goal_text_of, but original_text is preferred to text
goal_text_of_original(goal) == Get(goal, "original_text", Get(goal, "text", ""))

\* goal.get('text', goal.get('original_text', ''))
goal_text_of(goal) == Get(goal, "text", Get(goal, "original_text", ""))

action_patterns == <<
    <<"implement", "develop", "create", "build", "establish", "design">>,
    <<"improve", "enhance", "optimize">> >>

\* the end of the verb of the pattern that matches at p, 0 if none does
VerbEnd(t, p, verbs) ==
    LET ks == {k \in 1..Len(verbs) :
                  /\ p + Len(verbs[k]) - 1 <= Len(t)
                  /\ SubSeq(t, p, p + Len(verbs[k]) - 1) = verbs[k]}
    IN  IF ks = {} THEN 0 ELSE p + Len(verbs[Min(ks)])

\* where group 2 of (verbs)\s+([^.]+) begins when the verb ends at e: \s+
\* takes the longest run of whitespace, at least one character, that leaves
\* a character other than "."; 0 if there is none
ObjectStart(t, e) ==
    LET r == RunLen(t, e, "space")
        S == {q \in (e + 1)..(e + r) : q <= Len(t) /\ CharAt(t, q) # "."}
    IN  IF S = {} THEN 0 ELSE Max(S)

ActionAt(t, p, verbs) ==
    IF VerbEnd(t, p, verbs) = 0 THEN 0 ELSE ObjectStart(t, VerbEnd(t, p, verbs))

\* str.title() of a word: the first letter in upper case, the rest in lower
UpperChar(c) ==
    IF c \in CharsOf(LowerCase)
    THEN CharAt(UpperCase, CHOOSE i \in 1..26 : CharAt(LowerCase, i) = c) ELSE c

title_case(word) ==
    IF word = "" THEN ""
    ELSE UpperChar(CharAt(word, 1)) \o lower(SubSeq(word, 2, Len(word)))

TitleLimit == 60
ObjectiveLimit == 50

\* re.search(pattern, goal_text, re.IGNORECASE) for one pattern: the title
\* built of the first match, as <<title>>, or <<>> if the pattern does not match
action_title(goal_text, verbs) ==
    LET t  == fold(goal_text)
        ps == {p \in 1..Len(t) : ActionAt(t, p, verbs) # 0}
    IN  IF ps = {} THEN <<>>
        ELSE LET p == Min(ps)
                 e == VerbEnd(t, p, verbs)
                 b == ObjectStart(t, e)
                 z == Min({q \in b..(Len(t) + 1) : q = Len(t) + 1 \/ CharAt(t, q) = "."})
                 action == title_case(SubSeq(goal_text, p, e - 1))
                 objective == Prefix(strip(SubSeq(goal_text, b, z - 1)), ObjectiveLimit)
             IN  <<action \o " " \o objective>>

\* for pattern in action_patterns: the title of the first pattern that
\* matches, from the k-th pattern on
RECURSIVE first_action_title(_, _)
first_action_title(goal_text, k) ==
    IF k > Len(action_patterns) THEN "Epic: Business Objective Implementation"
    ELSE IF action_title(goal_text, action_patterns[k]) # <<>>
    THEN action_title(goal_text, action_patterns[k])[1]
    ELSE first_action_title(goal_text, k + 1)

_extract_epic_title(goal_text, goal_title) ==
    IF goal_title # "" /\ goal_title # "Untitled Goal" THEN Prefix(goal_title, TitleLimit)
    ELSE first_action_title(goal_text, 1)

DescriptionLimit == 200

\* the Epic of a goal; id is the value random.randint returned
_generate_epic_from_goal(goal, id) ==
    LET goal_text == goal_text_of(goal)
        goal_title == Get(goal, "title", "Untitled Goal")
    IN  [id |-> "EPIC-" \o str(id),
         title |-> _extract_epic_title(goal_text, goal_title),
         description |-> IF Len(goal_text) > DescriptionLimit
                         THEN Prefix(goal_text, DescriptionLimit) \o "..." ELSE goal_text,
         priority |-> Get(goal, "priority", "Medium"),
         category |-> Get(goal, "category", "Business"),
         acceptance_criteria |-> <<"All features are implemented and tested",
                                   "Business requirements are met",
                                   "Performance targets are achieved">>,
         original_goal |-> goal_text,
         status |-> "To Do"]

(***************************************************************************)
(* EpicGeneratorAgent: the Features of an Epic                             *)
(***************************************************************************)
_get_feature_templates(goal_text, category) == <<
    [title |-> "Requirements Analysis and Design",
     description |-> "Analyze requirements and create technical design",
     acceptance_criteria |-> <<"Requirements documented", "Design approved">>,
     effort_size |-> "M"],
    [title |-> "Core Implementation",
     description |-> "Implement core functionality",
     acceptance_criteria |-> <<"Core features working", "Unit tests passing">>,
     effort_size |-> "L"],
    [title |-> "User Interface Development",
     description |-> "Create user interface components",
     acceptance_criteria |-> <<"UI components created", "Responsive design">>,
     effort_size |-> "M"],
    [title |-> "Integration and Testing",
     description |-> "Integrate components and perform testing",
     acceptance_criteria |-> <<"Integration complete", "All tests passing">>,
     effort_size |-> "M"],
    [title |-> "Documentation and Deployment",
     description |-> "Create documentation and deploy to production",
     acceptance_criteria |-> <<"Documentation complete", "Successfully deployed">>,
     effort_size |-> "S"] >>

\* whether a keyword of the list occurs in the title (in lower case)
AnyKeyword(keywords, title_lower) ==
    \E k \in 1..Len(keywords) : Contains(title_lower, lower(keywords[k]))

\* _suggest_team_assignment, but a keyword is looked for as it is written
_suggest_team_assignment_cased(feature_title) ==
    LET Hit(i) == \E k \in 1..Len(team_categories[i].keywords) :
                      Contains(feature_title, team_categories[i].keywords[k])
    IN  IF \A i \in 1..Len(team_categories) : ~Hit(i) THEN "Backend"
        ELSE team_categories[CHOOSE i \in 1..Len(team_categories) :
                                Hit(i) /\ \A j \in 1..(i - 1) : ~Hit(j)].team

\* _suggest_team_assignment, but the last team with a keyword wins
_suggest_team_assignment_last(feature_title) ==
    LET title_lower == lower(feature_title)
        hits == {i \in 1..Len(team_categories) :
                    AnyKeyword(team_categories[i].keywords, title_lower)}
    IN  IF hits = {} THEN "Backend" ELSE team_categories[Max(hits)].team

_suggest_team_assignment(feature_title) ==
    LET title_lower == lower(feature_title)
        Hit(i) == AnyKeyword(team_categories[i].keywords, title_lower)
    IN  IF \A i \in 1..Len(team_categories) : ~Hit(i) THEN "Backend"
        ELSE team_categories[CHOOSE i \in 1..Len(team_categories) :
                                Hit(i) /\ \A j \in 1..(i - 1) : ~Hit(j)].team

MaxFeatures == 5

\* feature_of, but every feature gets the default priority
feature_of_unranked(epic, template, id) ==
    [id |-> "FEAT-" \o str(id),
     epic_id |-> epic.id,
     title |-> template.title,
     description |-> template.description,
     acceptance_criteria |-> template.acceptance_criteria,
     priority |-> "Medium",
     effort_size |-> template.effort_size,
     effort_points |-> effort_guidelines[template.effort_size].points,
     assigned_team |-> _suggest_team_assignment(template.title),
     status |-> "To Do"]

\* feature_of, but every feature gets the points of a medium one
feature_of_flat(epic, template, id) ==
    [id |-> "FEAT-" \o str(id),
     epic_id |-> epic.id,
     title |-> template.title,
     description |-> template.description,
     acceptance_criteria |-> template.acceptance_criteria,
     priority |-> epic.priority,
     effort_size |-> template.effort_size,
     effort_points |-> effort_guidelines.M.points,
     assigned_team |-> _suggest_team_assignment(template.title),
     status |-> "To Do"]

\* the feature made of a template; id is the value random.randint returned
feature_of(epic, template, id) ==
    [id |-> "FEAT-" \o str(id),
     epic_id |-> epic.id,
     title |-> template.title,
     description |-> template.description,
     acceptance_criteria |-> template.acceptance_criteria,
     priority |-> epic.priority,
     effort_size |-> template.effort_size,
     effort_points |-> effort_guidelines[template.effort_size].points,
     assigned_team |-> _suggest_team_assignment(template.title),
     status |-> "To Do"]

\* features.append(feature) for the templates from the i-th on
RECURSIVE FeaturesOf(_, _, _, _)
FeaturesOf(epic, feature_templates, ids, i) ==
    IF i > Len(feature_templates) THEN <<>>
    ELSE <<feature_of(epic, feature_templates[i], ids[i])>>
         \o FeaturesOf(epic, feature_templates, ids, i + 1)

\* _generate_features_for_epic, but an Epic of the category Data gets no
\* user interface feature
_generate_features_for_epic_by_category(epic, goal, ids) ==
    FeaturesOf(epic,
               SelectSeq(_get_feature_templates(goal_text_of(goal), epic.category),
                         LAMBDA template : epic.category # "Data"
                                           \/ template.title # "User Interface Development"),
               ids, 1)

\* ids[i] is the value random.randint returned for the i-th feature
_generate_features_for_epic(epic, goal, ids) ==
    FeaturesOf(epic, Prefix(_get_feature_templates(goal_text_of(goal), epic.category),
                            MaxFeatures), ids, 1)

RECURSIVE SumPoints(_, _)
SumPoints(features, k) ==
    IF k > Len(features) THEN 0
    ELSE features[k].effort_points + SumPoints(features, k + 1)

\* _assign_teams_to_features, but a team gets a title only once
_assign_teams_to_features_once(features) ==
    LET teams == {features[i].assigned_team : i \in 1..Len(features)}
        First(i) == \A j \in 1..(i - 1) : features[j].title # features[i].title
        Of(team) == {i \in 1..Len(features) : features[i].assigned_team = team /\ First(i)}
        Nth(S, n) == CHOOSE i \in S : Cardinality({j \in S : j <= i}) = n
    IN  [team \in teams |->
            [n \in 1..Cardinality(Of(team)) |-> features[Nth(Of(team), n)].title]]

\* the dictionary team -> titles of its features, in the order of the features
_assign_teams_to_features(features) ==
    LET teams == {features[i].assigned_team : i \in 1..Len(features)}
        Of(team) == SelectSeq(features, LAMBDA f : f.assigned_team = team)
    IN  [team \in teams |-> [i \in 1..Len(Of(team)) |-> Of(team)[i].title]]


(***************************************************************************)
(* EpicGeneratorAgent.generate_epics_and_features                          *)
(***************************************************************************)
\* random.randint is called once for the Epic and once for each feature
DrawsPerGoal == 1 + MaxFeatures

\* with_features, but total_effort leaves out the first feature
with_features_skipping(epic, features) ==
    [features |-> features,
     feature_count |-> Len(features),
     total_effort |-> SumPoints(features, 2)] @@ epic

\* epic['features'], epic['feature_count'] and epic['total_effort'] set
with_features(epic, features) ==
    [features |-> features,
     feature_count |-> Len(features),
     total_effort |-> SumPoints(features, 1)] @@ epic

\* the Epic with the features generated for it
epic_with_features(epic, goal, ids) ==
    with_features(epic, _generate_features_for_epic(epic, goal, ids))

\* the Epic of goals[k] with its features; draws are the values that
\* random.randint returned during the call, in the order of the calls
epic_of(goals, draws, k) ==
    epic_with_features(_generate_epic_from_goal(goals[k], draws[(k - 1) * DrawsPerGoal + 1]),
                       goals[k],
                       SubSeq(draws, (k - 1) * DrawsPerGoal + 2, k * DrawsPerGoal))

RECURSIVE SumEffort(_, _)
SumEffort(generated_epics, k) ==
    IF k > Len(generated_epics) THEN 0
    ELSE generated_epics[k].total_effort + SumEffort(generated_epics, k + 1)

WeekPoints == 20

\* generated_epics.append(epic) and all_features.extend(features), from the
\* k-th goal on
RECURSIVE EpicsFrom(_, _, _)
EpicsFrom(goals, draws, k) ==
    IF k > Len(goals) THEN <<>>
    ELSE <<epic_of(goals, draws, k)>> \o EpicsFrom(goals, draws, k + 1)

RECURSIVE FeaturesFrom(_, _)
FeaturesFrom(generated_epics, k) ==
    IF k > Len(generated_epics) THEN <<>>
    ELSE generated_epics[k].features \o FeaturesFrom(generated_epics, k + 1)

\* result_of, but estimated_weeks is not raised to 1
result_of_unfloored(generated_epics, t) ==
    LET all_features == FeaturesFrom(generated_epics, 1)
        team_assignments == _assign_teams_to_features(all_features)
        total_effort == SumEffort(generated_epics, 1)
    IN  [epics |-> generated_epics,
         features |-> all_features,
         team_assignments |-> team_assignments,
         summary |-> [total_epics |-> Len(generated_epics),
                      total_features |-> Len(all_features),
                      total_effort_points |-> total_effort,
                      estimated_weeks |-> total_effort \div WeekPoints,
                      teams_involved |-> Cardinality(DOMAIN team_assignments)],
         generated_at |-> isoformat(t)]

\* what generate_epics_and_features returns at time t, given the Epics
result_of(generated_epics, t) ==
    LET all_features == FeaturesFrom(generated_epics, 1)
        team_assignments == _assign_teams_to_features(all_features)
        total_effort == SumEffort(generated_epics, 1)
    IN  [epics |-> generated_epics,
         features |-> all_features,
         team_assignments |-> team_assignments,
         summary |-> [total_epics |-> Len(generated_epics),
                      total_features |-> Len(all_features),
                      total_effort_points |-> total_effort,
                      estimated_weeks |-> Max({1, total_effort \div WeekPoints}),
                      teams_involved |-> Cardinality(DOMAIN team_assignments)],
         generated_at |-> isoformat(t)]

generation_result(goals, draws, t) == result_of(EpicsFrom(goals, draws, 1), t)

(***************************************************************************)
(* The documents given to validate_goals: up to MaxBlocks blocks separated *)
(* by blank lines, documents of up to MaxCopies numbered goals, and one    *)
(* goal padded to every length up to that of its marker plus MaxPadding.   *)
(***************************************************************************)
MaxBlocks == 2
MaxCopies == 12
MaxPadding == 14

Blocks == {
    "GOAL 1: Implement checkout flow.",
    "GOAL 2: Reduce load time by 30% by Q3.",
    "GOAL 3: Deliver a perfect onboarding flow",
    "OBJECTIVE 7:  Build the\n API   gateway",
    "Goal: Create, build and develop a customer dashboard to cut cost by $500 within 2 weeks",
    "Objective: Establish realistic KPI metrics for business value by end of PI 3",
    "We should really improve the overall quality of everything for everyone soon." }

RECURSIVE JoinBlocks(_, _)
JoinBlocks(blocks, k) ==
    IF k > Len(blocks) THEN ""
    ELSE IF k = Len(blocks) THEN blocks[k]
    ELSE blocks[k] \o "\n\n" \o JoinBlocks(blocks, k + 1)

BlockDocs(n) == {JoinBlocks(blocks, 1) : blocks \in UNION {[1..k -> Blocks] : k \in 0..n}}

\* a document of n numbered goals; with gap, the second one is too short
NumberedGoal(i, gap) ==
    IF gap /\ i = 2 THEN "GOAL 2: tbd\n"
    ELSE "GOAL " \o str(i) \o ": Implement feature number " \o str(i) \o ".\n"

NumberedDoc(n, gap) == Concat([i \in 1..n |-> NumberedGoal(i, gap)])

\* one goal of n characters after its marker; wide puts more whitespace
\* than one space after the marker and around the text
PaddedDoc(n, wide) ==
    IF wide THEN "  GOAL 1:\n\t " \o SubSeq(LowerCase, 1, n) \o " \n"
    ELSE "GOAL 1: " \o SubSeq(LowerCase, 1, n)

Docs == BlockDocs(MaxBlocks)
        \cup {NumberedDoc(n, gap) : n \in 3..MaxCopies, gap \in BOOLEAN}
        \cup {PaddedDoc(n, wide) : n \in 1..MaxPadding, wide \in BOOLEAN}
        \cup {"We should really improve the overall quality of everything for everyone soon."
                \o "\n\nGoal: TBD",
              "GOAL 4: Eliminate all defects with a revolutionary process"}

(***************************************************************************)
(* The goal records given to generate_epics_and_features                   *)
(***************************************************************************)
LongText ==
    "Our customers wait too long. " \o
    "Optimize the checkout service so that orders are confirmed in seconds; " \o
    "this covers the payment step, the stock reservation, the confirmation mail, " \o
    "and the hand-over to the warehouse systems of every region we serve"

Backlog == <<
    [title |-> "Dashboard", text |-> "Build reporting dashboard",
     priority |-> "High", category |-> "Data"],
    [text |-> "GOAL 1: Implement checkout flow. REDESIGN  payments. Later.",
     priority |-> "Low"],
    [title |-> "Untitled Goal", text |-> LongText, category |-> "Performance"],
    [original_text |-> "Reduce load time by 30% by Q3."],
    [title |-> "", text |-> "We establish  .a baseline", original_text |-> "unused"],
    [title |-> "A very long title that goes on and on well past the sixty characters allowed",
     text |-> "Enhance security", priority |-> "Medium", category |-> "Security"],
    <<>>,
    [text |-> "Please implement the new onboarding journey for enterprise customers in all regions",
     category |-> "Technical"],
    [text |-> "We will establ" \o DottedI
              \o "sh the new onboarding journey for enterprise customers in all regions"],
    [priority |-> "High"] >>

\* no goal, every goal alone, and two goals together
GoalLists == {<<>>} \cup {<<Backlog[i]>> : i \in 1..Len(Backlog)}
             \cup {<<Backlog[1], Backlog[2]>>}

\* the values random.randint(1000, 9999) can return
RandMin == 1000
RandMax == 9999

\* The outcomes of n draws, one for each pattern of equal and different
\* values: a draw is the least value not drawn yet or repeats an earlier
\* draw, and at most MaxRepeats draws repeat one.
MaxRepeats == 1

ExtendDraws(d) ==
    LET used == {d[i] : i \in 1..Len(d)}
    IN  {Append(d, RandMin + Cardinality(used))}
        \cup (IF Len(d) - Cardinality(used) < MaxRepeats
              THEN {Append(d, v) : v \in used} ELSE {})

RECURSIVE DrawSeqs(_)
DrawSeqs(n) ==
    IF n = 0 THEN {<<>>}
    ELSE {d \in UNION {ExtendDraws(e) : e \in DrawSeqs(n - 1)} :
            \A i \in 1..n : d[i] \in RandMin..RandMax}

(***************************************************************************)
(* The titles given to _suggest_team_assignment                            *)
(***************************************************************************)
MaxTitleWords == 2

TitleWords == {"UI", "Payments API", "Security", "testing", "Dashboard",
               "WEB", "Integration", "Plan", "compliance", "Quality"}

RECURSIVE JoinWords(_, _)
JoinWords(words, k) ==
    IF k > Len(words) THEN ""
    ELSE IF k = Len(words) THEN words[k]
    ELSE words[k] \o " " \o JoinWords(words, k + 1)

FeatureTitles ==
    {JoinWords(words, 1) : words \in UNION {[1..k -> TitleWords] : k \in 0..MaxTitleWords}}

(***************************************************************************)
(* The state machine                                                       *)
(***************************************************************************)
Init ==
    /\ smart_criteria = SmartCriteria
    /\ team_categories = TeamCategories
    /\ effort_guidelines = EffortGuidelines
    /\ now = 0
    /\ called = None
    /\ returned = None
    /\ earlier = None
    /\ session_state = [workflow_status |-> [jira_wipe |-> "pending",
                                             goals_upload |-> "pending",
                                             epics_generation |-> "pending",
                                             review_push |-> "pending",
                                             backlog_analysis |-> "pending",
                                             dependency_check |-> "pending"],
                        session_stats |-> None,
                        processed_goals |-> None,
                        generated_epics |-> None]
    /\ finished = None

\* GoalValidatorAgent.validate_goals(text_content)
validate_goals(text_content) ==
    /\ now' = now + 1
    /\ called' = [op |-> "validate_goals", text_content |-> text_content]
    /\ returned' = validation_report(text_content, now + 1)
    /\ UNCHANGED <<smart_criteria, team_categories, effort_guidelines>>

\* EpicGeneratorAgent.generate_epics_and_features(goals)
\* generate_epics_and_features, but each call makes small features dearer
generate_epics_and_features_inflating(goals, draws) ==
    /\ now' = now + 1
    /\ called' = [op |-> "generate_epics_and_features", goals |-> goals, draws |-> draws]
    /\ returned' = generation_result(goals, draws, now + 1)
    /\ effort_guidelines' = [effort_guidelines EXCEPT !.S.points = @ + 1]
    /\ UNCHANGED <<smart_criteria, team_categories>>

generate_epics_and_features(goals, draws) ==
    /\ now' = now + 1
    /\ called' = [op |-> "generate_epics_and_features", goals |-> goals, draws |-> draws]
    /\ returned' = generation_result(goals, draws, now + 1)
    /\ UNCHANGED <<smart_criteria, team_categories, effort_guidelines>>

\* EpicGeneratorAgent._suggest_team_assignment(feature_title)
suggest_team_assignment(feature_title) ==
    /\ called' = [op |-> "_suggest_team_assignment", feature_title |-> feature_title]
    /\ returned' = _suggest_team_assignment(feature_title)
    /\ UNCHANGED <<smart_criteria, team_categories, effort_guidelines, now>>

\* One run: an agent is constructed and one of its methods is called once.
Validate == \E text_content \in Docs :
    called = None /\ validate_goals(text_content) /\ UNCHANGED <<earlier, session_state, finished>>

Generate == \E goals \in GoalLists : \E draws \in DrawSeqs(DrawsPerGoal * Len(goals)) :
    called = None /\ generate_epics_and_features(goals, draws) /\ UNCHANGED <<earlier, session_state, finished>>

Suggest == \E feature_title \in FeatureTitles :
    called = None /\ suggest_team_assignment(feature_title) /\ UNCHANGED <<earlier, session_state, finished>>

\* validate_goals called with a text_content that is not a str: re.findall
\* in _extract_goals raises TypeError for None, a number and bytes alike
ValidateMistyped == \E value \in {[type |-> "NoneType"], [type |-> "int"], [type |-> "bytes"]} :
    /\ called = None
    /\ called' = [op |-> "validate_goals", text_content |-> value, mistyped |-> TRUE]
    /\ returned' = [raised |-> "TypeError", by |-> "re.findall"]
    /\ UNCHANGED <<smart_criteria, team_categories, effort_guidelines, now, earlier, session_state, finished>>

\* generate_epics_and_features called with goals that is not a list: what
\* "for goal in goals" iterates over (items), if anything, and whether the
\* items are dicts.  None cannot be iterated; a str gives its characters and
\* a dict its keys, which have no get(); a tuple of dicts is processed as a
\* list is, and so is anything empty.
GenerateMistyped ==
    \E value \in {[type |-> "NoneType", iterable |-> FALSE, dicts |-> FALSE, items |-> <<>>],
                  [type |-> "str", iterable |-> TRUE, dicts |-> FALSE, items |-> <<>>],
                  [type |-> "str", iterable |-> TRUE, dicts |-> FALSE, items |-> <<"G", "o">>],
                  [type |-> "dict", iterable |-> TRUE, dicts |-> FALSE, items |-> <<"text">>],
                  [type |-> "tuple", iterable |-> TRUE, dicts |-> TRUE, items |-> <<Backlog[4]>>]} :
      \E draws \in DrawSeqs(IF value.dicts THEN DrawsPerGoal * Len(value.items) ELSE 0) :
        /\ called = None
        /\ called' = [op |-> "generate_epics_and_features", goals |-> value,
                      draws |-> draws, mistyped |-> TRUE]
        /\ IF ~value.iterable
           THEN returned' = [raised |-> "TypeError", by |-> "for goal in goals"] /\ now' = now
           ELSE IF value.items # <<>> /\ ~value.dicts
           THEN returned' = [raised |-> "AttributeError", by |-> "goal.get"] /\ now' = now
           ELSE returned' = generation_result(value.items, draws, now + 1) /\ now' = now + 1
        /\ UNCHANGED <<smart_criteria, team_categories, effort_guidelines, earlier, session_state, finished>>

Next == Validate \/ Generate \/ Suggest \/ ValidateMistyped \/ GenerateMistyped

Spec == Init /\ [][Next]_vars

(***************************************************************************)
(* One validator called again and again; earlier remembers one of the      *)
(* calls made so far and what it returned.                                 *)
(***************************************************************************)
MaxCalls == 3

RepeatDocs ==
    {"", "GOAL 1: Implement checkout flow.", "GOAL 3: Deliver a perfect onboarding flow",
     "OBJECTIVE 7:  Build the\n API   gateway"}
    \cup {NumberedDoc(3, TRUE), PaddedDoc(12, FALSE)}

Revalidate == \E text_content \in RepeatDocs :
    /\ now < MaxCalls
    /\ validate_goals(text_content)
    /\ UNCHANGED <<earlier, session_state, finished>>

Remember == \E text_content \in RepeatDocs :
    /\ now < MaxCalls
    /\ validate_goals(text_content)
    /\ earlier' = [text_content |-> text_content, report |-> returned']
    /\ UNCHANGED <<session_state, finished>>

RepeatNext == Revalidate \/ Remember

RepeatSpec == Init /\ [][RepeatNext]_vars

(***************************************************************************)
(* Both agents of one session called again and again, in any order;        *)
(* earlier remembers one of the calls made so far and what it returned.    *)
(***************************************************************************)
SessionValidate ==
    \E text_content \in {"GOAL 1: Implement checkout flow.\n\nGOAL 2: Reduce load time by 30% by Q3.",
                          "OBJECTIVE 7:  Build the\n API   gateway",
                          "Goal: Improve metrics"} :
        /\ now < MaxCalls
        /\ validate_goals(text_content)
        /\ earlier' \in {earlier, [call |-> called', outcome |-> returned']}
        /\ UNCHANGED <<session_state, finished>>

\* the draws differ from one another, but for the last one when repeat
SessionGenerate ==
    \E goals \in {<<>>, <<Backlog[4]>>, <<Backlog[1], Backlog[2], Backlog[4]>>} :
      \E repeat \in BOOLEAN :
        /\ now < MaxCalls
        /\ generate_epics_and_features(
               goals,
               [i \in 1..(DrawsPerGoal * Len(goals)) |->
                   RandMin + (IF repeat /\ i = DrawsPerGoal * Len(goals) THEN i - 2 ELSE i - 1)])
        /\ earlier' \in {earlier, [call |-> called', outcome |-> returned']}
        /\ UNCHANGED <<session_state, finished>>

SessionNext == SessionValidate \/ SessionGenerate

SessionSpec == Init /\ [][SessionNext]_vars

(***************************************************************************)
(* The pages of the application over one st.session_state: the Upload      *)
(* Goals page, the Generate Epics page and the sidebar.  finished names    *)
(* the handler that ran last and the path on which it returned.            *)
(***************************************************************************)
\* sidebar.update_workflow_status(step, status) on the session state ss
update_workflow_status(ss, step, status) ==
    [ss EXCEPT !.workflow_status = (step :> status) @@ @]

\* Upload Goals page with a .txt file in the uploader:
\* process_document(uploaded_file), which runs process_with_ai_agent and
\* display_agent_analysis.  extract_text gives the content of the file; the
\* edit form of edit_goals_interface is left at its defaults (the improved
\* text, priority High, category Business).  raised: an exception reaches
\* the except clause before the agent has returned.
ProcessDocument ==
    \E uploaded_file \in
           {[name |-> "empty.txt", content |-> ""],
            [name |-> "blank.txt", content |-> " \n"],
            [name |-> "notes.txt",
             content |-> "We should really improve the overall quality of everything for everyone soon."
                         \o "\n\nGoal: TBD"],
            [name |-> "gateway.txt", content |-> "OBJECTIVE 7:  Build the\n API   gateway"],
            [name |-> "shop.txt",
             content |-> "GOAL 1: Implement checkout flow.\n\nGOAL 2: Reduce load time by 30% by Q3."]} :
      \E raised \in BOOLEAN :
        /\ now < MaxCalls
        /\ \/ /\ strip(uploaded_file.content) = ""
              /\ session_state' = update_workflow_status(session_state, "goals_upload", "progress")
              /\ finished' = [handler |-> "process_document", path |-> "no text"]
              /\ UNCHANGED <<smart_criteria, team_categories, effort_guidelines,
                             now, called, returned>>
           \/ /\ strip(uploaded_file.content) # ""
              /\ raised
              /\ session_state' = update_workflow_status(
                     update_workflow_status(session_state, "goals_upload", "progress"),
                     "goals_upload", "pending")
              /\ finished' = [handler |-> "process_document", path |-> "exception"]
              /\ UNCHANGED <<smart_criteria, team_categories, effort_guidelines,
                             now, called, returned>>
           \/ /\ strip(uploaded_file.content) # ""
              /\ ~raised
              /\ validate_goals(uploaded_file.content)
              /\ \E analysis_result \in {returned'} :
                   IF analysis_result.goals # <<>>
                   THEN /\ session_state' = update_workflow_status(
                               [session_state EXCEPT
                                   !.processed_goals =
                                       [filename |-> uploaded_file.name,
                                        original_text |-> analysis_result.original_text,
                                        goals |-> [i \in 1..Len(analysis_result.goals) |->
                                            [title |-> analysis_result.goals[i].title,
                                             text |-> analysis_result.goals[i].improved_version,
                                             priority |-> "High",
                                             category |-> "Business",
                                             original_text |-> analysis_result.goals[i].original_text,
                                             smart_assessment |-> analysis_result.goals[i].smart_assessment,
                                             issues |-> analysis_result.goals[i].issues,
                                             recommendations |-> analysis_result.goals[i].recommendations]],
                                        analysis_result |-> analysis_result,
                                        processed_at |-> now'],
                                   !.session_stats =
                                       [(IF @ = None
                                         THEN [goals_processed |-> 0, epics_generated |-> 0,
                                               stories_analyzed |-> 0, dependencies_found |-> 0]
                                         ELSE @)
                                        EXCEPT !.goals_processed = Len(analysis_result.goals)]],
                               "goals_upload", "complete")
                        /\ finished' = [handler |-> "process_document", path |-> "goals found"]
                   ELSE /\ session_state' = update_workflow_status(
                               update_workflow_status(session_state, "goals_upload", "progress"),
                               "goals_upload", "pending")
                        /\ finished' = [handler |-> "process_document", path |-> "no goals found"]
        /\ UNCHANGED earlier

\* Upload Goals page with no file in the uploader: display_processed_goals
\* shows the stored goals, and "Upload New Document" is chosen
UploadNewDocument ==
    /\ session_state.processed_goals # None
    /\ session_state' = [session_state EXCEPT !.processed_goals = None]
    /\ finished' = [handler |-> "display_processed_goals", path |-> "Upload New Document"]
    /\ UNCHANGED <<smart_criteria, team_categories, effort_guidelines, now, called, returned, earlier>>

\* Generate Epics page, nothing generated yet: "Generate Epics & Features"
\* is chosen and the page's generate_epics_and_features(goals) runs.  The
\* draws differ from one another, but for the last one when repeat.
GenerateEpicsPage ==
    \E repeat, raised \in BOOLEAN :
      \E goals \in {IF session_state.processed_goals = None THEN <<>>
                    ELSE session_state.processed_goals.goals} :
        /\ now < MaxCalls
        /\ session_state.workflow_status.goals_upload = "complete"
        /\ goals # <<>>
        /\ session_state.generated_epics = None
        /\ \/ /\ raised
              /\ ~repeat
              /\ session_state' = update_workflow_status(
                     update_workflow_status(session_state, "epic_generation", "progress"),
                     "epic_generation", "pending")
              /\ finished' = [handler |-> "generate_epics_and_features", path |-> "exception"]
              /\ UNCHANGED <<smart_criteria, team_categories, effort_guidelines,
                             now, called, returned>>
           \/ /\ ~raised
              /\ generate_epics_and_features(
                     goals,
                     [i \in 1..(DrawsPerGoal * Len(goals)) |->
                         RandMin + (IF repeat /\ i = DrawsPerGoal * Len(goals) THEN i - 2 ELSE i - 1)])
              /\ \E result \in {returned'} :
                   session_state' = update_workflow_status(
                       [session_state EXCEPT
                           !.generated_epics = result,
                           !.session_stats =
                               [(IF @ = None
                                 THEN [goals_processed |-> 0, epics_generated |-> 0,
                                       stories_analyzed |-> 0, dependencies_found |-> 0]
                                 ELSE @)
                                EXCEPT !.epics_generated = result.summary.total_epics]],
                       "epic_generation", "complete")
              /\ finished' = [handler |-> "generate_epics_and_features", path |-> "complete"]
        /\ UNCHANGED earlier

\* Generate Epics page showing stored epics: "Regenerate Epics" is chosen
RegenerateEpics ==
    /\ session_state.workflow_status.goals_upload = "complete"
    /\ session_state.processed_goals # None
    /\ session_state.generated_epics # None
    /\ session_state' = [session_state EXCEPT !.generated_epics = None]
    /\ finished' = [handler |-> "display_generated_epics", path |-> "Regenerate Epics"]
    /\ UNCHANGED <<smart_criteria, team_categories, effort_guidelines, now, called, returned, earlier>>

\* sidebar, on any page: "Reset Workflow" is chosen
ResetWorkflow ==
    /\ session_state' = [session_state EXCEPT
           !.workflow_status = [jira_wipe |-> "pending",
                                goals_upload |-> "pending",
                                epics_generation |-> "pending",
                                review_push |-> "pending",
                                backlog_analysis |-> "pending",
                                dependency_check |-> "pending"],
           !.session_stats = [goals_processed |-> 0, epics_generated |-> 0,
                              stories_analyzed |-> 0, dependencies_found |-> 0]]
    /\ finished' = [handler |-> "render_sidebar", path |-> "Reset Workflow"]
    /\ UNCHANGED <<smart_criteria, team_categories, effort_guidelines, now, called, returned, earlier>>

WorkflowSpec ==
    Init /\ [][ProcessDocument \/ UploadNewDocument \/ GenerateEpicsPage
               \/ RegenerateEpics \/ ResetWorkflow]_vars

(***************************************************************************)
(* Properties of validate_goals                                            *)
(***************************************************************************)
\* a call with an argument of the declared type
Validated == called # None /\ called.op = "validate_goals" /\ "mistyped" \notin DOMAIN called
Generated ==
    called # None /\ called.op = "generate_epics_and_features" /\ "mistyped" \notin DOMAIN called
Suggested == called # None /\ called.op = "_suggest_team_assignment"

\* C1: the report of validate_goals has goals_count equal to the number of
\* entries of its goals list, for every text, the empty one included.
C1_GoalsCountIsLength ==
    Validated => returned.goals_count = Len(returned.goals)

C1_Witness ==
    Validated /\ returned.goals_count = 2 /\ Len(returned.goals) = 2

\* the number of tenths nearest to a score: the value the additions of
\* 0.1, 0.2, 0.3 and 0.4 give without rounding errors
FHalf == FloatLit(1, 2)

Tenths(score) == FInt(FAdd(FMulInt(score, 10), FHalf))

ExactSum(scores) ==
    2 * (Tenths(scores.specific) + Tenths(scores.measurable) + Tenths(scores.achievable)
         + Tenths(scores.relevant) + Tenths(scores.time_bound))

ExactSmartScore(goal_text) == ExactSum(dimension_scores(goal_text))

\* C2: for every validated goal, smart_score is an integer in 0..100 and is
\* the sum over the five dimensions of the score of the dimension, clamped
\* to [0, 1], times 20.
C2_SmartScoreIsSum ==
    Validated => \A i \in 1..Len(returned.goals) :
        /\ returned.goals[i].smart_score \in 0..100
        /\ returned.goals[i].smart_score = ExactSmartScore(returned.goals[i].original_text)

\* the dimensions a goal fails, in the order of the checks
Failing(goal) == SelectSeq(Dimensions, LAMBDA d : ~goal.smart_assessment[d])

\* C3: for every validated goal, issues has one entry for each dimension
\* whose smart_assessment is false, in the order specific, measurable,
\* achievable, relevant, time-bound, and recommendations has the same
\* length, its entry at each position being that of the same dimension.
C3_IssuesFollowAssessment ==
    Validated => \A i \in 1..Len(returned.goals) :
        LET goal == returned.goals[i]
        IN  /\ Dimensions = <<"specific", "measurable", "achievable", "relevant", "time_bound">>
            /\ Len(goal.issues) = Len(Failing(goal))
            /\ Len(goal.recommendations) = Len(goal.issues)
            /\ \A k \in 1..Len(goal.issues) :
                 /\ goal.issues[k] = IssueOf[Failing(goal)[k]]
                 /\ goal.recommendations[k] = RecommendationOf[Failing(goal)[k]]

C3_Witness ==
    Validated /\ \E i \in 1..Len(returned.goals) :
        /\ Len(returned.goals[i].issues) = 3
        /\ returned.goals[i].smart_assessment.measurable
        /\ ~returned.goals[i].smart_assessment.relevant

\* what the claim compares of two reports
Verdict(report) ==
    [goals |-> [i \in 1..Len(report.goals) |->
                  [original_text |-> report.goals[i].original_text,
                   smart_score |-> report.goals[i].smart_score,
                   smart_assessment |-> report.goals[i].smart_assessment,
                   issues |-> report.goals[i].issues]],
     smart_score |-> report.smart_score,
     quality_level |-> report.quality_level]

Elements(seq) == {seq[i] : i \in 1..Len(seq)}

\* whether the text is the original_text of a returned goal
Kept(text) == \E i \in 1..Len(returned.goals) : returned.goals[i].original_text = text

\* C5: a candidate of exactly 20 characters after the normalization of its
\* whitespace is kept as a goal, and a candidate of 19 characters is not.
C5_TwentyCharactersKept ==
    Validated =>
        \A cand \in Elements(cleaned_candidates(called.text_content)) :
            /\ Len(cand) = 20 => Kept(cand)
            /\ Len(cand) = 19 => ~Kept(cand)

\* the candidates that pass the filter on the length
Survivors(text) == SelectSeq(cleaned_candidates(text), LAMBDA c : Len(c) > MinGoalLength)

\* C6: validate_goals never returns more than 10 goals; when more than 10
\* candidates pass the filter on the length, the goals are the first 10 of
\* them, in the order of the candidates.
C6_FirstTenGoals ==
    Validated =>
        /\ Len(returned.goals) <= 10
        /\ returned.goals_count <= 10
        /\ \A surv \in {Survivors(called.text_content)} :
             Len(surv) > 10 =>
                 /\ Len(returned.goals) = 10
                 /\ \A i \in 1..10 : returned.goals[i].original_text = surv[i]

C6_Witness ==
    /\ Validated
    /\ Len(cleaned_candidates(called.text_content)) = 12
    /\ Len(Survivors(called.text_content)) = 11
    /\ Len(returned.goals) = 10

ReportKeys == {"original_text", "goals_count", "goals", "smart_score", "quality_level",
               "recommendations", "processed_at"}

\* C7: when no goal is extracted (the text is empty, or every candidate is
\* too short), validate_goals returns a report with goals_count 0, no
\* goals, the aggregate smart_score 0 and the quality_level "Very Poor".
C7_NoGoalsReport ==
    (Validated /\ _extract_goals(called.text_content) = <<>>) =>
        /\ DOMAIN returned = ReportKeys
        /\ returned.goals_count = 0
        /\ returned.goals = <<>>
        /\ returned.smart_score = 0
        /\ returned.quality_level = "Very Poor"

C7_Witness ==
    /\ Validated
    /\ cleaned_candidates(called.text_content) # <<>>
    /\ _extract_goals(called.text_content) = <<>>
    /\ returned.goals_count = 0
    /\ returned.quality_level = "Very Poor"

\* the targeted recommendation of a dimension: present when more than half
\* of the goals of the report failed the dimension
Targeted(dimension, recommendation) ==
    IF 2 * Cardinality({g \in 1..Len(returned.goals) :
                           ~returned.goals[g].smart_assessment[dimension]})
         > Len(returned.goals)
    THEN <<recommendation>> ELSE <<>>

\* C15: the recommendations of a report are the targeted recommendations of
\* specific, measurable, time-bound and relevant, each present exactly when
\* more than half of the goals failed the dimension, then the four general
\* recommendations in their order, the whole cut to its first 6.
C15_TargetedRecommendations ==
    Validated =>
        returned.recommendations =
            Prefix(Targeted("specific", "Focus on making goals more specific and actionable")
                   \o Targeted("measurable", "Add quantifiable metrics and KPIs to all goals")
                   \o Targeted("time_bound",
                               "Establish clear deadlines and milestones for all goals")
                   \o Targeted("relevant",
                               "Clearly articulate business value and impact for each goal")
                   \o <<"Consider breaking down large goals into smaller, manageable objectives",
                        "Ensure goals align with overall PI objectives and business strategy",
                        "Review and validate goals with key stakeholders",
                        "Establish regular check-ins and progress reviews">>,
                   6)

RECURSIVE ScoreSum(_)
ScoreSum(goals) == IF goals = <<>> THEN 0 ELSE Head(goals).smart_score + ScoreSum(Tail(goals))

\* C16: the smart_score of a report with goals is the average of the scores
\* of its goals, cut to an integer, and quality_level is Excellent from 90,
\* Good from 75, Fair from 60, Poor from 40 and Very Poor below.
C16_AverageAndLadder ==
    (Validated /\ returned.goals # <<>>) =>
        /\ returned.smart_score = ScoreSum(returned.goals) \div Len(returned.goals)
        /\ returned.quality_level =
             (IF returned.smart_score >= 90 THEN "Excellent"
              ELSE IF returned.smart_score >= 75 THEN "Good"
              ELSE IF returned.smart_score >= 60 THEN "Fair"
              ELSE IF returned.smart_score >= 40 THEN "Poor"
              ELSE "Very Poor")

C16_Witness ==
    /\ Validated
    /\ Len(returned.goals) = 2
    /\ ScoreSum(returned.goals) = 73
    /\ returned.smart_score = 36
    /\ returned.quality_level = "Very Poor"

\* where the part occurs in the text
Occurrences(text, part) ==
    {p \in 1..(Len(text) - Len(part) + 1) : SubSeq(text, p, p + Len(part) - 1) = part}

\* C21: the goals of a report are in the order of their places in the
\* document: of two goals the earlier one of the report starts earlier in
\* the document (its whitespace normalized as that of the goals is), also
\* when the document has markers of several families.
C21_GoalsInDocumentOrder ==
    Validated =>
        \A doc \in {collapse_whitespace(strip(called.text_content))} :
          \A i, j \in 1..Len(returned.goals) :
            i < j => \E p \in Occurrences(doc, returned.goals[i].original_text) :
                       \E q \in Occurrences(doc, returned.goals[j].original_text) : p < q

\* whether a marker of a family matches somewhere in the text
MarkerFound(text) ==
    \E k \in 1..Len(goal_patterns) : \E p \in 1..Len(text) :
        MatchEnds(fold(text), p, FoldPattern(goal_patterns[k])) # {}

\* the goals got of candidates: cleaned, the short ones dropped, the first 10
GoalsOf(cands) ==
    Prefix(SelectSeq([i \in 1..Len(cands) |-> collapse_whitespace(strip(cands[i]))],
                     LAMBDA c : Len(c) > 20), 10)

\* C22: the goals of a report come of the fragments of the fallback split
\* exactly when no marker of any family matches in the text; when a marker
\* matches they come of the marker blocks alone, and if every block is too
\* short the report has no goals.
C22_FallbackOnlyWithoutMarker ==
    Validated =>
        \A goals \in {[i \in 1..Len(returned.goals) |-> returned.goals[i].original_text]} :
          IF MarkerFound(called.text_content)
          THEN \A blocks \in {structured_goals(called.text_content)} :
                 /\ goals = GoalsOf(blocks)
                 /\ (\A i \in 1..Len(blocks) : Len(collapse_whitespace(blocks[i])) <= 20)
                      => returned.goals_count = 0
          ELSE goals = GoalsOf(fallback_goals(called.text_content))

C22_Witness ==
    /\ Validated
    /\ MarkerFound(called.text_content)
    /\ fallback_goals(called.text_content) # <<>>
    /\ GoalsOf(fallback_goals(called.text_content)) # <<>>
    /\ returned.goals_count = 0
    /\ returned.goals = <<>>

\* the improved text of an objective, given which of specific, measurable,
\* relevant and time_bound fail
ImprovedText(objective, specific, measurable, relevant, time_bound) ==
    (IF specific THEN objective ELSE "Implement and deliver " \o lower(objective))
    \o (IF measurable THEN ""
        ELSE " with measurable success criteria including specific KPIs and performance targets")
    \o (IF relevant THEN ""
        ELSE " to deliver clear business value and improve operational efficiency")
    \o (IF time_bound THEN "" ELSE " by the end of the current Program Increment (PI)")
    \o "\n\nSuccess Criteria:\n"
    \o "- Define specific, quantifiable metrics\n"
    \o "- Establish baseline and target values\n"
    \o "- Identify key stakeholders and beneficiaries\n"
    \o "- Set clear acceptance criteria\n"
    \o "- Define timeline with key milestones"

\* C23: the improved text of a goal is its objective (after "Implement and
\* deliver", in lower case, when specific fails), then one clause for each
\* of measurable, relevant and time_bound that fails, in this order, then
\* the Success Criteria template; it does not depend on achievable.
C23_ImprovedTextFromFour ==
    Validated =>
        \A g \in 1..Len(returned.goals) :
            returned.goals[g].improved_version =
                ImprovedText(returned.goals[g].title,
                             returned.goals[g].smart_assessment.specific,
                             returned.goals[g].smart_assessment.measurable,
                             returned.goals[g].smart_assessment.relevant,
                             returned.goals[g].smart_assessment.time_bound)

C23_Witness ==
    /\ Validated
    /\ Len(returned.goals) = 1
    /\ ~returned.goals[1].smart_assessment.achievable
    /\ ~returned.goals[1].smart_assessment.specific
    /\ returned.goals[1].title = "Eliminate all defects with a revolutionary process"

\* C27: the goals of a report are pieces of the document that do not
\* overlap: any two of them occur in the document (its whitespace
\* normalized) at places that have no character in common.
C27_GoalsDoNotOverlap ==
    Validated =>
        \A doc \in {collapse_whitespace(strip(called.text_content))} :
          \A i, j \in 1..Len(returned.goals) :
            i < j => \E p \in Occurrences(doc, returned.goals[i].original_text) :
                       \E q \in Occurrences(doc, returned.goals[j].original_text) :
                         \/ p + Len(returned.goals[i].original_text) <= q
                         \/ q + Len(returned.goals[j].original_text) <= p

(***************************************************************************)
(* Properties of generate_epics_and_features                               *)
(***************************************************************************)
RECURSIVE TotalPoints(_)
TotalPoints(features) ==
    IF features = <<>> THEN 0 ELSE Head(features).effort_points + TotalPoints(Tail(features))

\* C8: for every Epic of a result, total_effort is the sum of effort_points
\* of the features of the Epic and feature_count is their number.
C8_EpicTotals ==
    Generated => \A k \in 1..Len(returned.epics) :
        /\ returned.epics[k].total_effort = TotalPoints(returned.epics[k].features)
        /\ returned.epics[k].feature_count = Len(returned.epics[k].features)

C8_Witness ==
    /\ Generated
    /\ Len(returned.epics) = 2
    /\ Len(returned.features) = 10
    /\ returned.epics[2].feature_count = 5
    /\ returned.epics[2].total_effort = 16

EffortTable == [XS |-> 1, S |-> 2, M |-> 3, L |-> 5, XL |-> 8, XXL |-> 13]

\* C9: effort_points of every generated feature is the value of its
\* effort_size in the table XS=1, S=2, M=3, L=5, XL=8, XXL=13.
C9_PointsFromTable ==
    Generated =>
        /\ \A i \in 1..Len(returned.features) :
             /\ returned.features[i].effort_size \in DOMAIN EffortTable
             /\ returned.features[i].effort_points = EffortTable[returned.features[i].effort_size]
        /\ \A k \in 1..Len(returned.epics) : \A i \in 1..Len(returned.epics[k].features) :
             returned.epics[k].features[i].effort_points
                = EffortTable[returned.epics[k].features[i].effort_size]

C9_Witness ==
    /\ Generated
    /\ \E i \in 1..Len(returned.features) :
         returned.features[i].effort_size = "L" /\ returned.features[i].effort_points = 5
    /\ \E i \in 1..Len(returned.features) :
         returned.features[i].effort_size = "S" /\ returned.features[i].effort_points = 2

DeclarationOrder == <<"Frontend", "Backend", "DevOps", "QA", "Data", "Security">>

\* whether a keyword of the team occurs in the title, whatever the case
HasKeyword(team, title) ==
    \E c \in 1..Len(TeamCategories) :
        /\ TeamCategories[c].team = team
        /\ \E k \in 1..Len(TeamCategories[c].keywords) :
             Contains(lower(title), lower(TeamCategories[c].keywords[k]))

\* C10: the team suggested for a title is the first team, in the order
\* Frontend, Backend, DevOps, QA, Data, Security, with a keyword that occurs
\* in the title whatever the case, and Backend when no team has one; a
\* title with a keyword of Frontend and one of Backend goes to Frontend.
C10_FirstTeamWins ==
    Suggested =>
        LET title == called.feature_title
            hits == {i \in 1..Len(DeclarationOrder) : HasKeyword(DeclarationOrder[i], title)}
        IN  /\ returned = IF hits = {} THEN "Backend" ELSE DeclarationOrder[Min(hits)]
            /\ (HasKeyword("Frontend", title) /\ HasKeyword("Backend", title))
                 => returned = "Frontend"

C10_Witness ==
    /\ Suggested
    /\ HasKeyword("Frontend", called.feature_title)
    /\ HasKeyword("Backend", called.feature_title)
    /\ ~HasKeyword("Data", called.feature_title)
    /\ returned = "Frontend"

TemplateTitles == <<"Requirements Analysis and Design", "Core Implementation",
                    "User Interface Development", "Integration and Testing",
                    "Documentation and Deployment">>

TemplateSizes == <<"M", "L", "M", "M", "S">>

C12_NoGoalsResult ==
    (Generated /\ called.goals = <<>>) =>
        /\ returned.epics = <<>>
        /\ returned.features = <<>>
        /\ DOMAIN returned.team_assignments = {}
        /\ returned.summary.total_epics = 0
        /\ returned.summary.total_features = 0
        /\ returned.summary.total_effort_points = 0
        /\ returned.summary.teams_involved = 0
        /\ returned.summary.estimated_weeks = 1

C12_Witness ==
    /\ Generated
    /\ called.goals = <<>>
    /\ DOMAIN returned = {"epics", "features", "team_assignments", "summary", "generated_at"}
    /\ returned.summary.estimated_weeks = 1

\* C13: in one result the ids of the Epics are pairwise distinct and the ids
\* of the features are pairwise distinct.
C13_IdsDistinct ==
    Generated =>
        /\ \A i, j \in 1..Len(returned.epics) :
             i # j => returned.epics[i].id # returned.epics[j].id
        /\ \A i, j \in 1..Len(returned.features) :
             i # j => returned.features[i].id # returned.features[j].id

\* C14: the title of every Epic has at most 60 characters, whether it is the
\* title supplied with the goal, the verb and its object found in the text
\* of the goal, or the generic title.
C14_TitleWithinLimit ==
    Generated => \A k \in 1..Len(returned.epics) : Len(returned.epics[k].title) <= 60

\* C18: a goal with neither text nor original_text is treated as having the
\* text "": its Epic has an empty description, the defaults for the fields
\* the goal lacks (the generic title, Medium, Business) and 5 features; of a
\* goal with both text and original_text, text is used.
C18_MissingTextIsEmpty ==
    Generated => \A k \in 1..Len(called.goals) :
        LET goal == called.goals[k]
            epic == returned.epics[k]
        IN  /\ ("text" \notin DOMAIN goal /\ "original_text" \notin DOMAIN goal) =>
                 /\ epic.description = ""
                 /\ epic.original_goal = ""
                 /\ "title" \notin DOMAIN goal =>
                      epic.title = "Epic: Business Objective Implementation"
                 /\ "priority" \notin DOMAIN goal => epic.priority = "Medium"
                 /\ "category" \notin DOMAIN goal => epic.category = "Business"
                 /\ Len(epic.features) = 5
                 /\ epic.feature_count = 5
            /\ ("text" \in DOMAIN goal /\ "original_text" \in DOMAIN goal) =>
                 /\ epic.original_goal = goal.text
                 /\ Len(goal.text) <= 200 => epic.description = goal.text

C18_Witness ==
    /\ Generated
    /\ called.goals = << <<>> >>
    /\ Len(returned.epics) = 1
    /\ returned.epics[1].description = ""
    /\ returned.epics[1].category = "Business"
    /\ Len(returned.features) = 5

\* C19: a call with an argument of the wrong type (a text that is not a
\* string, goals that are not a list) is rejected by a check of the input
\* made before anything else: it returns no result and does not fail at a
\* later statement of the extraction, scoring or generation.
C19_MistypedRejected ==
    (called # None /\ "mistyped" \in DOMAIN called) =>
        /\ "raised" \in DOMAIN returned
        /\ returned.raised \in {"TypeError", "ValueError"}
        /\ returned.by = "raise"

RECURSIVE FeaturesOfEpics(_)
FeaturesOfEpics(epics) ==
    IF epics = <<>> THEN <<>> ELSE Head(epics).features \o FeaturesOfEpics(Tail(epics))

\* the titles of the features of the team, in the order of the features
TitlesOf(features, team) ==
    LET of == SelectSeq(features, LAMBDA f : f.assigned_team = team)
    IN  [i \in 1..Len(of) |-> of[i].title]

\* C24: the summary of a result agrees with its items: total_epics is the
\* number of goals given, features is the features of the Epics one Epic
\* after the other and total_features its length, total_effort_points is
\* the sum of effort_points of all features, estimated_weeks is the greater
\* of 1 and total_effort_points div 20, team_assignments gives for every
\* team with a feature the titles of its features, once for each feature,
\* and teams_involved is the number of these teams.
C24_SummaryAgreesWithItems ==
    Generated =>
        /\ returned.summary.total_epics = Len(called.goals)
        /\ Len(returned.epics) = Len(called.goals)
        /\ returned.features = FeaturesOfEpics(returned.epics)
        /\ returned.summary.total_features = Len(returned.features)
        /\ returned.summary.total_effort_points = TotalPoints(returned.features)
        /\ returned.summary.estimated_weeks =
             (IF returned.summary.total_effort_points \div 20 > 1
              THEN returned.summary.total_effort_points \div 20 ELSE 1)
        /\ DOMAIN returned.team_assignments =
             {returned.features[i].assigned_team : i \in 1..Len(returned.features)}
        /\ \A team \in DOMAIN returned.team_assignments :
             returned.team_assignments[team] = TitlesOf(returned.features, team)
        /\ returned.summary.teams_involved = Cardinality(DOMAIN returned.team_assignments)

C24_Witness ==
    /\ Generated
    /\ Len(called.goals) = 3
    /\ returned.summary.total_features = 15
    /\ returned.summary.total_effort_points = 48
    /\ returned.summary.estimated_weeks = 2
    /\ Len(returned.team_assignments["DevOps"]) = 3

\* C25: an Epic has the priority and the category of its goal, Medium and
\* Business when the goal has none; a feature has the priority of its Epic
\* and the id of its Epic as epic_id; every Epic and every feature has the
\* status To Do.
C25_InheritedFromGoalAndEpic ==
    Generated => \A k \in 1..Len(returned.epics) :
        /\ returned.epics[k].priority =
             (IF "priority" \in DOMAIN called.goals[k] THEN called.goals[k].priority
              ELSE "Medium")
        /\ returned.epics[k].category =
             (IF "category" \in DOMAIN called.goals[k] THEN called.goals[k].category
              ELSE "Business")
        /\ returned.epics[k].status = "To Do"
        /\ \A i \in 1..Len(returned.epics[k].features) :
             /\ returned.epics[k].features[i].priority = returned.epics[k].priority
             /\ returned.epics[k].features[i].epic_id = returned.epics[k].id
             /\ returned.epics[k].features[i].status = "To Do"
             /\ returned.features[5 * (k - 1) + i] = returned.epics[k].features[i]

C25_Witness ==
    /\ Generated
    /\ Len(called.goals) = 2
    /\ returned.epics[1].priority = "High"
    /\ returned.epics[1].category = "Data"
    /\ returned.epics[2].priority = "Low"
    /\ returned.epics[2].category = "Business"
    /\ returned.epics[1].id # returned.epics[2].id
    /\ returned.features[6].epic_id = returned.epics[2].id
    /\ returned.features[6].priority = "Low"

\* C26: the five features of every Epic are assigned, in their order, to
\* Frontend, Backend, Frontend, Backend and DevOps; so a result for at
\* least one goal has teams_involved = 3, and QA, Data and Security get no
\* feature.
C26_TemplateTeams ==
    Generated =>
        /\ \A k \in 1..Len(returned.epics) :
             [i \in 1..Len(returned.epics[k].features) |->
                 returned.epics[k].features[i].assigned_team]
               = <<"Frontend", "Backend", "Frontend", "Backend", "DevOps">>
        /\ called.goals # <<>> =>
             /\ returned.summary.teams_involved = 3
             /\ DOMAIN returned.team_assignments = {"Frontend", "Backend", "DevOps"}

C26_Witness ==
    /\ Generated
    /\ Len(called.goals) = 1
    /\ returned.features[1].title = "Requirements Analysis and Design"
    /\ returned.features[1].assigned_team = "Frontend"
    /\ returned.features[4].assigned_team = "Backend"
    /\ returned.summary.teams_involved = 3
    /\ "category" \in DOMAIN called.goals[1]
    /\ called.goals[1].category = "Security"

(***************************************************************************)
(* Properties of a session                                                 *)
(***************************************************************************)
\* what a call returned, without the time of the call
Outcome(result) ==
    IF "processed_at" \in DOMAIN result THEN [result EXCEPT !.processed_at = ""]
    ELSE [result EXCEPT !.generated_at = ""]

TextsOf(call, report) ==
    IF call.op = "validate_goals"
    THEN {report.goals[i].original_text : i \in 1..Len(report.goals)} ELSE {}

\* the goals of the last report and of the remembered one
SessionGoals ==
    (IF called # None THEN TextsOf(called, returned) ELSE {})
    \cup (IF earlier # None THEN TextsOf(earlier.call, earlier.outcome) ELSE {})

\* a percentage figure and the deadline word "by"
PercentAndBy(t) == re_search(Compile("\\d+%"), t, FALSE) /\ Contains(lower(t), "by")

\* none of the words and patterns of the tables of measurable and time_bound
NoKeywordOrPattern(t) ==
    /\ \A d \in {"measurable", "time_bound"} :
         /\ \A k \in 1..Len(SmartCriteria[d].keywords) :
              ~Contains(lower(t), SmartCriteria[d].keywords[k])
         /\ \A k \in 1..Len(SmartCriteria[d].patterns) :
              ~re_search(Compile(SmartCriteria[d].patterns[k]), t, d = "time_bound")

\* none of the terms the two checks reward beside their tables
NoBonusTerm(t) ==
    \A term \in {"success criteria", "metrics", "pi", "program increment"} :
        ~Contains(lower(t), term)

\* a scores strictly higher than b on measurable and on time_bound
ScoresHigher(a, b) ==
    /\ FLess(_check_measurable(b), _check_measurable(a))
    /\ FLess(_check_time_bound(b), _check_time_bound(a))

CheckoutAndLoadTime ==
    "GOAL 1: Implement checkout flow.\n\nGOAL 2: Reduce load time by 30% by Q3."

\* the report of the document of two blocks: 2 goals in the order of the
\* blocks, the second scoring higher on measurable and time_bound
TwoBlocksInOrder ==
    (called # None /\ called.op = "validate_goals"
        /\ called.text_content = CheckoutAndLoadTime) =>
        /\ returned.goals_count = 2
        /\ Len(returned.goals) = 2
        /\ returned.goals[1].original_text = "GOAL 1: Implement checkout flow."
        /\ returned.goals[2].original_text = "GOAL 2: Reduce load time by 30% by Q3."
        /\ ScoresHigher(returned.goals[2].original_text, returned.goals[1].original_text)

C28_ProcessingLeavesNoProgress ==
    (finished # None /\ finished.handler = "process_document")
        => session_state.workflow_status.goals_upload \in {"complete", "pending"}

\* C29: once epic generation has succeeded on the Generate Epics page, the
\* step the sidebar tracks for that page, 'epics_generation', has status
\* 'complete', and it keeps that status until the workflow is reset.
C29_GenerationMarkedComplete ==
    [][/\ (finished' = [handler |-> "generate_epics_and_features", path |-> "complete"])
            => session_state'.workflow_status.epics_generation = "complete"
       /\ (/\ session_state.workflow_status.epics_generation = "complete"
           /\ finished' # [handler |-> "render_sidebar", path |-> "Reset Workflow"])
            => session_state'.workflow_status.epics_generation = "complete"]_vars

\* the Generate Epics page gets past its checks and shows the stored epics
DisplaysGeneratedEpics ==
    /\ session_state.workflow_status.goals_upload = "complete"
    /\ session_state.processed_goals # None
    /\ session_state.processed_goals.goals # <<>>
    /\ session_state.generated_epics # None

\* C30: whenever the Generate Epics page displays stored generated epics,
\* they were generated from the goals now stored as processed goals: there
\* is one Epic for each of these goals, in order, made from its text.
C30_EpicsOfCurrentGoals ==
    DisplaysGeneratedEpics
        => /\ Len(session_state.generated_epics.epics) = Len(session_state.processed_goals.goals)
           /\ \A k \in 1..Len(session_state.processed_goals.goals) :
                  session_state.generated_epics.epics[k].original_goal
                      = session_state.processed_goals.goals[k].text

====
